---- MODULE Spec2Model ----
(***************************************************************************)
(* The streaming diff-edit coordinator: DiffViewCoordinator and the        *)
(* components it delegates to (StreamingContentUpdater,                    *)
(* DiffOperationHandler, FileContentManager, DirectFileSaver).             *)
(*                                                                         *)
(* A text is a sequence of code points.  The code points that matter are   *)
(* "LF" (\n), "CR" (\r), "FEFF" and "FFFE" (the byte order marks); "a"     *)
(* stands for any other character.  A value that is undefined in the       *)
(* source is the one-element sequence Undefined, which is no text.         *)
(***************************************************************************)
EXTENDS Integers, Sequences, FiniteSets, TLC

\* ---------------------------------------------------------------- bounds

\* Longest text the editor holds in the initial states of SpecSave.
MaxEditLen == 3

\* Longest proposed content in the initial states of SpecSave.
MaxPropLen == 2

\* Longest content of one update call, and of the original file, in SpecStream.
MaxStreamLen == 2

\* Most update calls of one session.
MaxUpdates == 2

\* Longest original file, update content and typed text in Spec.
MaxLifeLen == 1

\* ----------------------------------------------------------------- texts

Chars == {"a", "LF", "CR", "FEFF", "FFFE"}

StreamChars == {"a", "LF", "FEFF"}

LifeChars == {"a", "FEFF"}

Undefined == <<"undefined">>

Empty == <<>>

TextsOver(alphabet, n) == UNION {[1..k -> alphabet] : k \in 0..n}

LF == <<"LF">>

CRLF == <<"CR", "LF">>

\* s.endsWith("\n")
EndsWithLF(s) == Len(s) > 0 /\ s[Len(s)] = "LF"

\* s.replace(/^c/, ""): one leading occurrence of the code point c removed.
RemoveLeading(s, c) == IF Len(s) > 0 /\ s[1] = c THEN Tail(s) ELSE s

\* s.replace(/c/g, ""): every occurrence of the code point c removed.
RemoveAll(s, c) == SelectSeq(s, LAMBDA x : x # c)

\* One turn of the loop of FileContentManager.stripAllBOMs.
StripPass(s) ==
    RemoveAll(RemoveAll(RemoveLeading(RemoveLeading(s, "FEFF"), "FFFE"), "FEFF"), "FFFE")

RECURSIVE StripLoop(_)
StripLoop(s) ==
    LET r == StripPass(s)
    IN  IF r # s THEN StripLoop(r) ELSE r

\* A stripping that forgets the UTF-16 mark.
StripAllBOMs_OnlyFEFF(input) == RemoveAll(input, "FEFF")

\* FileContentManager.stripAllBOMs
StripAllBOMs(input) == StripLoop(input)

\* content.includes("\r\n")
IncludesCRLF(content) ==
    \E i \in 1..(Len(content) - 1) : content[i] = "CR" /\ content[i + 1] = "LF"

\* FileContentManager.detectLineEnding
DetectLineEnding(content) == IF IncludesCRLF(content) THEN CRLF ELSE LF

\* content.replace(/\r\n|\n/g, targetEOL): the leftmost match first, "\r\n"
\* tried before "\n" at each position, the scan resuming after the match.
RECURSIVE ReplaceEOLs(_, _, _)
ReplaceEOLs(content, i, targetEOL) ==
    IF i > Len(content) THEN <<>>
    ELSE IF content[i] = "CR" /\ i < Len(content) /\ content[i + 1] = "LF"
         THEN targetEOL \o ReplaceEOLs(content, i + 2, targetEOL)
    ELSE IF content[i] = "LF"
         THEN targetEOL \o ReplaceEOLs(content, i + 1, targetEOL)
    ELSE <<content[i]>> \o ReplaceEOLs(content, i + 1, targetEOL)

\* A normalisation that rewrites only the bare "\n", as /\n/g would.
RECURSIVE ReplaceLFOnly(_, _, _)
ReplaceLFOnly(content, i, targetEOL) ==
    IF i > Len(content) THEN <<>>
    ELSE IF content[i] = "LF"
         THEN targetEOL \o ReplaceLFOnly(content, i + 1, targetEOL)
    ELSE <<content[i]>> \o ReplaceLFOnly(content, i + 1, targetEOL)

NormalizeEOL_LFOnly(content, targetEOL) == ReplaceLFOnly(content, 1, targetEOL)

\* FileContentManager.normalizeEOL
NormalizeEOL(content, targetEOL) == ReplaceEOLs(content, 1, targetEOL)

\* StreamingContentUpdater.stripAllBOMs: input.replace(/^\uFEFF/, "")
UpdaterStripAllBOMs(input) == RemoveLeading(input, "FEFF")

\* ------------------------------------------------------------- documents
\* The host's text document, as far as the source uses it: getText(),
\* lineCount, and the replacement of the range between two positions
\* (line, 0).  A line ends at each "LF"; a position past the last line is
\* clamped to the end of the document, as the host validates ranges.

\* The number of "\n" in s.
RECURSIVE CountLF(_)
CountLF(s) == IF s = <<>> THEN 0 ELSE (IF Head(s) = "LF" THEN 1 ELSE 0) + CountLF(Tail(s))

\* s.split("\n").length
SplitLength(s) == CountLF(s) + 1

\* document.lineCount
LineCount(text) == CountLF(text) + 1

\* The offset (number of code points before it) of Position(line, 0).
RECURSIVE OffsetFrom(_, _, _)
OffsetFrom(text, line, i) ==
    IF line = 0 THEN i - 1
    ELSE IF i > Len(text) THEN Len(text)
    ELSE OffsetFrom(text, IF text[i] = "LF" THEN line - 1 ELSE line, i + 1)

OffsetAt(text, line) == OffsetFrom(text, line, 1)

\* WorkspaceEdit.replace(uri, Range((startLine,0),(endLine,0)), newText)
ReplaceLines(text, startLine, endLine, newText) ==
    LET s == OffsetAt(text, startLine)
        e == OffsetAt(text, endLine)
    IN  SubSeq(text, 1, s) \o newText \o SubSeq(text, IF e < s THEN s + 1 ELSE e + 1, Len(text))


\* s.split("\n"): the lines of s, one more than its "\n".
RECURSIVE SplitFrom(_, _, _)
SplitFrom(s, i, line) ==
    IF i > Len(s) THEN <<line>>
    ELSE IF s[i] = "LF" THEN <<line>> \o SplitFrom(s, i + 1, <<>>)
    ELSE SplitFrom(s, i + 1, Append(line, s[i]))

SplitLF(s) == SplitFrom(s, 1, <<>>)

\* lines.join("\n")
RECURSIVE JoinLF(_)
JoinLF(lines) ==
    IF lines = <<>> THEN <<>>
    ELSE IF Len(lines) = 1 THEN lines[1]
    ELSE lines[1] \o LF \o JoinLF(Tail(lines))

\* array.pop(): the array without its last element.
Pop(lines) == SubSeq(lines, 1, Len(lines) - 1)

Max(x, y) == IF x >= y THEN x ELSE y

\* -------------------------------------------------- DecorationController
\* A controller's ranges are a sequence of ranges of whole lines.

\* A range of lines, as the editor's visibleRanges and the decorations hold
\* them.
LineRange(start, end) == [start |-> start, end |-> end]

\* DecorationController.addLines
AddLines(ranges, startIndex, numLines) ==
    IF startIndex < 0 \/ numLines <= 0 THEN ranges
    ELSE IF ranges # <<>> /\ ranges[Len(ranges)].end = startIndex - 1
    THEN [ranges EXCEPT ![Len(ranges)] = LineRange(@.start, @.end + numLines)]
    ELSE Append(ranges, LineRange(startIndex, startIndex + numLines - 1))

\* DecorationController.setActiveLine
SetActiveLine(line) == <<LineRange(line, line)>>

\* DecorationController.updateOverlayAfterLine
UpdateOverlayAfterLine(ranges, line, totalLines) ==
    SelectSeq(ranges, LAMBDA range : range.end < line)
    \o (IF line < totalLines - 1 THEN <<LineRange(line + 1, totalLines - 1)>> ELSE <<>>)

\* The ranges of the two controllers the updater holds.
Decorations(faded, active) == [faded |-> faded, active |-> active]

\* A clearing that forgets the active line.
ClearDecorations_FadedOnly(decorations) == Decorations(<<>>, decorations.active)

\* StreamingContentUpdater.clearDecorations: DecorationController.clear on
\* both controllers.
ClearDecorations(decorations) == Decorations(<<>>, <<>>)

\* StreamingContentUpdater.updateDecorations(endLine, totalLines)
UpdateDecorations(decorations, endLine, totalLines) ==
    Decorations(UpdateOverlayAfterLine(decorations.faded, endLine, totalLines),
                SetActiveLine(endLine))

\* StreamingContentUpdater.initializeDecorations, on controllers just made.
InitializeDecorations(lineCount) == Decorations(AddLines(<<>>, 0, lineCount), <<>>)

\* ----------------------------------------------- StreamingContentUpdater

\* The lines kept by updateStreamingContent: the last, partial line is
\* dropped unless the update is final.
AccumulatedLines(accumulatedContent, isFinal) ==
    IF isFinal THEN SplitLF(accumulatedContent) ELSE Pop(SplitLF(accumulatedContent))

\* The text of the first replace of updateStreamingContent.
ContentToReplace(accumulatedContent, isFinal) ==
    LET accumulatedLines == AccumulatedLines(accumulatedContent, isFinal)
    IN  IF ~isFinal THEN accumulatedContent
        ELSE JoinLF(accumulatedLines) \o (IF Len(accumulatedLines) > 0 THEN LF ELSE <<>>)

\* The text the first replace writes into the editor.
FirstReplaceText(accumulatedContent, isFinal) ==
    UpdaterStripAllBOMs(ContentToReplace(accumulatedContent, isFinal))

\* The document after the first replace: lines 0 .. endLine replaced.
AfterFirstReplace(text, accumulatedContent, isFinal) ==
    LET endLine == Len(AccumulatedLines(accumulatedContent, isFinal))
    IN  ReplaceLines(text, 0, endLine, FirstReplaceText(accumulatedContent, isFinal))

\* A final text that always ends with a newline.
FinalText_AlwaysNewline(accumulatedContent, original) ==
    IF ~EndsWithLF(accumulatedContent) THEN accumulatedContent \o LF ELSE accumulatedContent

\* accumulatedContent as finalizeFinalContent completes it: a "\n" is appended
\* when the original ends with one and the accumulated content does not.
FinalText(accumulatedContent, original) ==
    IF original # Undefined /\ EndsWithLF(original) /\ ~EndsWithLF(accumulatedContent)
    THEN accumulatedContent \o LF
    ELSE accumulatedContent

\* The text of the last replace of finalizeFinalContent.
LastReplaceText(accumulatedContent, original) ==
    UpdaterStripAllBOMs(FinalText(accumulatedContent, original))

\* The last line of the range of the last replace of finalizeFinalContent.
EndLineForRange(original) ==
    LET originalLines == IF original = Undefined THEN <<>> ELSE SplitLF(original)
    IN  Max(Len(originalLines) - 1, 0)

\* A last replace that covers the whole document.
FinalRangeEnd_WholeDocument(text, original) == LineCount(text)

\* The end line of the range of the last replace, given the document.
FinalRangeEnd(text, original) == EndLineForRange(original)

\* finalizeFinalContent: the lines after the streamed ones are deleted, then
\* the range (0,0) .. (endLineForRange,0) is replaced by the final text.
FinalizeFinalContent(text, nStreamedLines, accumulatedContent, original) ==
    LET trimmed == IF nStreamedLines < LineCount(text)
                   THEN ReplaceLines(text, nStreamedLines, LineCount(text), <<>>)
                   ELSE text
    IN  ReplaceLines(trimmed, 0, FinalRangeEnd(trimmed, original),
                     LastReplaceText(accumulatedContent, original))

\* updateStreamingContent: the decorations when the call has completed; text
\* is the document before it.
UpdateStreamingDecorations(decorations, text, accumulatedContent, isFinal) ==
    LET endLine == Len(AccumulatedLines(accumulatedContent, isFinal))
        totalLines == LineCount(AfterFirstReplace(text, accumulatedContent, isFinal))
        updated == UpdateDecorations(decorations, endLine, totalLines)
    IN  IF isFinal THEN ClearDecorations(updated) ELSE updated

\* updateStreamingContent: the document text when the call has completed.
UpdateStreamingContent(text, accumulatedContent, isFinal, original) ==
    LET first == AfterFirstReplace(text, accumulatedContent, isFinal)
    IN  IF isFinal
        THEN FinalizeFinalContent(first, Len(AccumulatedLines(accumulatedContent, isFinal)),
                                  accumulatedContent, original)
        ELSE first

\* ----------------------------------------------------------- file system
\* A path is the sequence of its components below the working directory; a
\* directory is a proper prefix of a path.

Paths == {<<"f">>, <<"d", "g">>, <<"d", "e", "h">>}

Dirs == {<<"d">>, <<"d", "e">>}

\* The values of Date.now() at the saves with a backup.
Timestamps == {"1", "2"}

\* `${absolutePath}.backup.${Date.now()}`: the path with the suffix after it.
BackupPath(p, now) == p \o <<".backup", now>>

\* The paths a backup may get.
BackupPaths == {BackupPath(p, now) : p \in Paths, now \in Timestamps}

IsPrefix(d, p) == Len(d) < Len(p) /\ SubSeq(p, 1, Len(d)) = d

\* The directories above path p, outermost first.
Ancestors(p) == [i \in 1..(Len(p) - 1) |-> SubSeq(p, 1, i)]

\* createDirectoriesForFile: the missing directories above p, in creation
\* order (outermost first).
CreateDirectoriesForFile(existing, p) ==
    SelectSeq(Ancestors(p), LAMBDA d : d \notin existing)

SeqToSet(s) == {s[i] : i \in 1..Len(s)}

\* fs.rmdir(d) succeeds when d exists and holds neither a file nor a directory.
CanRmdir(fs, existing, d) ==
    /\ d \in existing
    /\ \A p \in DOMAIN fs : IsPrefix(d, p) => fs[p] = Undefined
    /\ \A e \in existing : ~IsPrefix(d, e)

\* One fs.rmdir call of removeDirectories and whether it removed the directory.
Rmdir(d, removed) == [directory |-> d, removed |-> removed]

\* A removal that gives up at the first rmdir that fails.
RECURSIVE RemoveDirectories_StopsAtFailure(_, _, _, _)
RemoveDirectories_StopsAtFailure(fs, existing, directories, denied) ==
    IF directories = <<>> THEN [dirs |-> existing, attempts |-> <<>>]
    ELSE LET d == directories[Len(directories)]
             removed == CanRmdir(fs, existing, d) /\ d \notin denied
             rest == RemoveDirectories_StopsAtFailure(fs, existing \ {d}, Pop(directories), denied)
         IN  IF removed
             THEN [dirs |-> rest.dirs, attempts |-> <<Rmdir(d, TRUE)>> \o rest.attempts]
             ELSE [dirs |-> existing, attempts |-> <<Rmdir(d, FALSE)>>]

\* FileContentManager.removeDirectories: from the last directory of the list
\* to the first, each rmdir attempted once and its failure swallowed.  An
\* rmdir fails on a directory that is not empty or not there, and on the
\* directories the host denies; the result tells the directories left and
\* the rmdir calls made, in order.
RECURSIVE RemoveDirectories(_, _, _, _)
RemoveDirectories(fs, existing, directories, denied) ==
    IF directories = <<>> THEN [dirs |-> existing, attempts |-> <<>>]
    ELSE LET d == directories[Len(directories)]
             removed == CanRmdir(fs, existing, d) /\ d \notin denied
             rest == RemoveDirectories(fs, IF removed THEN existing \ {d} ELSE existing,
                                       Pop(directories), denied)
         IN  [dirs |-> rest.dirs, attempts |-> <<Rmdir(d, removed)>> \o rest.attempts]

\* ------------------------------------------------------------------ state

VARIABLES
    \* DiffViewCoordinator's fields
    relPath,            \* this.relPath
    editType,           \* this.editType: "create", "modify" or "undefined"
    isEditing,          \* this.isEditing
    originalContent,    \* this.originalContent
    createdDirs,        \* this.createdDirs
    newContent,         \* this.newContent
    activeDiffEditor,   \* whether this.activeDiffEditor is set
    controllers,        \* whether both decoration controllers are set
    newProblemsMessage, \* this.newProblemsMessage
    userEdits,          \* this.userEdits
    streamedLines,      \* StreamingContentUpdater.streamedLines
    updaterControllers, \* whether StreamingContentUpdater.decorationControllers holds any
    \* the host: the document of the comparison editor, the disk, the tabs
    docPath,            \* the file the editor's document belongs to
    docText,            \* document.getText()
    docDirty,           \* document.isDirty
    files,              \* the content of each file on disk, Undefined if none
    dirs,               \* the directories that exist
    diffTabOpen,        \* whether the comparison tab is open
    \* the last call made and its outcome
    call,
    ret,
    writeLog,           \* the writeFile calls of the last call, in order
    session,            \* what the running session was opened with
    nUpdates,           \* update calls applied since the last open
    nDirect,            \* saveDirectly calls made
    nSessions,          \* sessions opened
    nCalls,             \* operations carried out in this run
    phase,              \* which entry point the run exercises
    \* DiffViewManager.openDiffEditor: one invocation and the host around it
    promise,            \* the promise openDiffEditor returned
    timerArmed,         \* whether timeoutId is set
    elapsed,            \* seconds since the timer was set
    listeners,          \* the event listeners held in disposables
    chain,              \* how far the pre-open and the comparison command have got
    late,               \* comparison commands of earlier invocations still under way
    documentOpen,       \* whether the host has the target's document open
    diffTabs,           \* the comparison tabs open for the target, by original side
    visible,            \* the visible editors that show the target
    events,             \* host events fired and not yet delivered
    continuations,      \* document-opened handlers waiting behind setTimeout(0)
    firstExit,          \* the outcome of the first exit path taken
    editorSeen,         \* whether an editor for the target was visible since the call
    nInvocations,       \* openDiffEditor calls made
    \* DiffViewManager.closeAllDiffViews
    tabs,               \* the tabs of the window's tab groups, in order
    openTabs,           \* which of them are open
    openBefore,         \* which of them were open when closeAllDiffViews was last called
    closeRequested,     \* the tabs the last closeAllDiffViews asked the host to close
    closeRaised,        \* whether the last closeAllDiffViews raised
    nCloses,            \* closeAllDiffViews calls made
    \* DiagnosticsManager
    preDiagnostics,     \* this.preDiagnostics
    hostDiagnostics,    \* what vscode.languages.getDiagnostics() returns
    diagnosed,          \* the last processNewDiagnostics call: snapshots, settings, message
    nDiagnostics,       \* steps taken around the diagnostics manager
    \* FileContentManager's text functions, called one after the other
    textIn,             \* the text the first call is given
    textBefore,         \* the argument of the last call
    textOut,            \* the result of the last call
    textCalls           \* the calls made, in order

coordVars == <<relPath, editType, isEditing, originalContent, createdDirs, newContent,
               activeDiffEditor, controllers, newProblemsMessage, userEdits>>

hostVars == <<docPath, docText, docDirty, files, dirs, diffTabOpen>>

ghostVars == <<call, ret, writeLog, session, nUpdates, nDirect, nSessions, phase>>

openVars == <<promise, timerArmed, elapsed, listeners, chain, late, documentOpen, diffTabs,
              visible, events, continuations, firstExit, editorSeen, nInvocations>>

tabVars == <<tabs, openTabs, openBefore, closeRequested, closeRaised, nCloses>>

diagVars == <<preDiagnostics, hostDiagnostics, diagnosed, nDiagnostics>>

textVars == <<textIn, textBefore, textOut, textCalls>>

managerVars == <<openVars, tabVars, diagVars, textVars>>

coordinatorVars == <<coordVars, streamedLines, updaterControllers, hostVars, ghostVars, nCalls>>

vars == <<coordinatorVars, managerVars>>

NoFiles == [p \in Paths \cup BackupPaths |-> Undefined]

NoCall ==
    [op |-> "none", isFinal |-> FALSE, proposed |-> Undefined, skipped |-> FALSE,
     steps |-> <<>>, rmdirs |-> <<>>, visible |-> <<>>, scrolledTo |-> <<>>]

\* ------------------------------------------------------- write results
\* The payload of pushToolWriteResult as the elements the builder writes, each
\* with its text; an element left out is Undefined.  Texts of the payload are
\* sequences of code points like every other text.

\* The first two notes, and the one added for user edits (it holds an
\* apostrophe); each stands for the note's text, which has none of & < >.
NoteNoReread == <<"a">>

NoteBaseline == <<"a", "a">>

NoteUserEdits == <<"a", "'", "a">>

\* if (value): undefined and the empty string are falsy.
Truthy(value) == value # Undefined /\ value # Empty

\* value.replace(/c/g, replacement)
RECURSIVE ReplaceAll(_, _, _)
ReplaceAll(value, c, replacement) ==
    IF value = <<>> THEN <<>>
    ELSE (IF Head(value) = c THEN replacement ELSE <<Head(value)>>)
         \o ReplaceAll(Tail(value), c, replacement)

\* An escaping that replaces the ampersands last.
TagValueProcessor_AmpersandLast(value) ==
    ReplaceAll(ReplaceAll(ReplaceAll(value, "<", <<"&", "l", "t", ";">>),
                          ">", <<"&", "g", "t", ";">>),
               "&", <<"&", "a", "m", "p", ";">>)

\* tagValueProcessor: & first, then < and >.
TagValueProcessor(value) ==
    ReplaceAll(ReplaceAll(ReplaceAll(value, "&", <<"&", "a", "m", "p", ";">>),
                          "<", <<"&", "l", "t", ";">>),
               ">", <<"&", "g", "t", ";">>)

\* No message sent to the task, and the user_feedback_diff message.
NoSay == [type |-> "none", tool |-> "", path |-> Undefined, diff |-> Undefined]

UserFeedbackDiff(pathText, isNewFile, edits) ==
    [type |-> "user_feedback_diff",
     tool |-> IF isNewFile THEN "newFileCreated" ELSE "editedExistingFile",
     path |-> pathText, diff |-> edits]

NoPayload ==
    [path |-> Undefined, operation |-> Undefined, user_edits |-> Undefined,
     problems |-> Undefined, notice |-> <<>>]

\* A payload that carries every defined userEdits, the empty one too.
SendsUserEdits_Defined(edits) == edits # Undefined

\* Whether pushToolWriteResult reports user edits: if (userEdits).
SendsUserEdits(edits) == Truthy(edits)

\* DiffOperationHandler.pushToolWriteResult: the message sent to the task and
\* the payload returned.
PushToolWriteResultOutcome(pathText, isNewFile, edits, problemsMessage) ==
    [said |-> IF SendsUserEdits(edits) THEN UserFeedbackDiff(pathText, isNewFile, edits)
              ELSE NoSay,
     payload |->
        [path |-> TagValueProcessor(pathText),
         operation |-> TagValueProcessor(IF isNewFile THEN <<"c">> ELSE <<"m">>),
         user_edits |-> IF SendsUserEdits(edits) THEN TagValueProcessor(edits) ELSE Undefined,
         problems |-> IF Truthy(problemsMessage) THEN TagValueProcessor(problemsMessage)
                      ELSE Undefined,
         notice |-> <<TagValueProcessor(NoteNoReread), TagValueProcessor(NoteBaseline)>>
                    \o (IF SendsUserEdits(edits) THEN <<TagValueProcessor(NoteUserEdits)>>
                        ELSE <<>>)]]

NoRet ==
    [raised |-> FALSE, error |-> "", path |-> Undefined, cause |-> FALSE, newProblemsMessage |-> Undefined,
     userEdits |-> Undefined, finalContent |-> Undefined, said |-> NoSay, payload |-> NoPayload,
     backupPath |-> Undefined]

NoSession ==
    [path |-> Undefined, kind |-> "undefined", original |-> Undefined,
     created |-> <<>>, typed |-> FALSE, finalized |-> FALSE, ended |-> "no",
     closed |-> FALSE, lastUpdate |-> Undefined, lastReplace |-> Undefined,
     firstReplace |-> Undefined, faded |-> <<>>, active |-> <<>>]

\* A call and its content argument; skipped tells that it returned at once,
\* steps which steps it carried out, in order (kept for open and saveDirectly),
\* rmdirs the fs.rmdir calls it made, in order, visible the editor's visible
\* ranges when update looked at them, scrolledTo the line it scrolled to.
CallOf(op, isFinal, proposed) ==
    [op |-> op, isFinal |-> isFinal, proposed |-> proposed, skipped |-> FALSE,
     steps |-> <<>>, rmdirs |-> <<>>, visible |-> <<>>, scrolledTo |-> <<>>]

Raised(error) == [NoRet EXCEPT !.raised = TRUE, !.error = error]

\* The failures FileContentManager wraps.
FileFailures == {"read", "write", "delete"}

\* An error that tells neither the path nor the cause.
FileError_Bare(operation, p) == Raised(operation)

\* readFile, writeFile, deleteFile: "Failed to <operation> file <path>: <error>".
FileError(operation, p) == [Raised(operation) EXCEPT !.path = p, !.cause = TRUE]

\* What the step failAt raises on the file p.
Failure(failAt, p) == IF failAt \in FileFailures THEN FileError(failAt, p) ELSE Raised(failAt)

\* The message processNewDiagnostics returns when there are new problems.
ProblemsMessage == <<"a">>

\* ---------------------------------------------------- DiffOperationHandler

\* The steps of saveChanges that may raise.
SaveFailures == {"none", "save", "show", "diagnostics", "write"}

\* Whether saveChanges reaches the step that raises.
SaveFailureOccurs(failAt, dirty, diagnosticsEnabled) ==
    /\ failAt = "save" => dirty
    /\ failAt = "diagnostics" => diagnosticsEnabled

\* The target end of line: detected in the proposed content.
NewContentEOL(proposed) == DetectLineEnding(proposed)

\* strippedEditedContent, normalised.
NormalizedEditedContent(editedContent, proposed) ==
    NormalizeEOL(StripAllBOMs(editedContent), NewContentEOL(proposed))

NormalizedNewContent(proposed) == NormalizeEOL(proposed, NewContentEOL(proposed))

\* A detection that compares the raw texts.
DetectUserEdits_Raw(editedContent, proposed) ==
    IF editedContent # proposed THEN editedContent ELSE Undefined

\* A detection that reports the normalised text.
DetectUserEdits_Normalized(editedContent, proposed) ==
    IF NormalizedEditedContent(editedContent, proposed) # NormalizedNewContent(proposed)
    THEN NormalizedEditedContent(editedContent, proposed)
    ELSE Undefined

\* userEdits of saveChanges.
DetectUserEdits(editedContent, proposed) ==
    IF NormalizedEditedContent(editedContent, proposed) # NormalizedNewContent(proposed)
    THEN editedContent
    ELSE Undefined

\* A save that writes the proposal instead of the editor's text.
ContentToWrite_Proposed(editedContent, proposed) == NormalizedNewContent(proposed)

\* The content saveChanges hands to writeFile.
ContentToWrite(editedContent, proposed) == NormalizedEditedContent(editedContent, proposed)

\* A save that does not save the dirty document first.
SavesDirtyDocument_Never(dirty) == FALSE

\* Whether saveChanges saves the document before anything else.
SavesDirtyDocument(dirty) == dirty

\* DiffOperationHandler.saveChanges, on the editor's document (of file dPath,
\* holding text) and the path rel: what raises, and the disk, the writeFile
\* calls and the result when it returns.
SaveChangesOutcome(fs, dPath, text, dirty, rel, proposed, diagnosticsEnabled, problems, failAt) ==
    LET editedContent == text
        saved == SavesDirtyDocument(dirty) /\ failAt # "save"
        fs1 == IF saved THEN [fs EXCEPT ![dPath] = text] ELSE fs
        dirty1 == IF saved THEN FALSE ELSE dirty
        message == IF diagnosticsEnabled THEN problems ELSE Empty
        content == ContentToWrite(editedContent, proposed)
    IN  IF failAt # "none"
        THEN [ret |-> Failure(failAt, rel), files |-> fs1, dirty |-> dirty1, writes |-> <<>>]
        ELSE [ret |-> [NoRet EXCEPT !.newProblemsMessage = message,
                                     !.userEdits = DetectUserEdits(editedContent, proposed),
                                     !.finalContent = content],
              files |-> [fs1 EXCEPT ![rel] = content],
              dirty |-> dirty1,
              writes |-> <<[path |-> rel, content |-> content]>>]

\* DiffOperationHandler.saveChanges called on its own.
HandlerSaveChanges(diagnosticsEnabled, problems, failAt) ==
    /\ phase = "save"
    /\ SaveFailureOccurs(failAt, docDirty, diagnosticsEnabled)
    /\ LET out == SaveChangesOutcome(files, docPath, docText, docDirty, relPath, newContent,
                                     diagnosticsEnabled, problems, failAt)
       IN  /\ files' = out.files
           /\ docDirty' = out.dirty
           /\ ret' = out.ret
           /\ writeLog' = out.writes
    /\ call' = CallOf("saveChanges", FALSE, newContent)
    /\ phase' = "done"
    /\ UNCHANGED <<coordVars, streamedLines, docPath, docText, dirs, diffTabOpen,
                   session, nUpdates, nDirect, nSessions>>
    /\ UNCHANGED <<updaterControllers, managerVars>>

\* The text of a path: its components joined by "/".
RECURSIVE PathText(_)
PathText(path) ==
    IF path = Undefined THEN Undefined
    ELSE IF Len(path) = 1 THEN <<path[1]>>
    ELSE <<path[1], "/">> \o PathText(Tail(path))

\* DiffOperationHandler.pushToolWriteResult called on its own, with any path
\* text, user edits and problems message.
HandlerPushToolWriteResult(pathText, isNewFile, edits, problemsMessage) ==
    /\ phase = "result"
    /\ LET out == PushToolWriteResultOutcome(pathText, isNewFile, edits, problemsMessage)
       IN  ret' = [NoRet EXCEPT !.path = pathText, !.userEdits = edits,
                                !.newProblemsMessage = problemsMessage,
                                !.said = out.said, !.payload = out.payload]
    /\ call' = [CallOf("pushToolWriteResult", isNewFile, Undefined) EXCEPT !.steps = <<"handler">>]
    /\ writeLog' = <<>>
    /\ UNCHANGED <<coordVars, streamedLines, hostVars, session, nUpdates, nDirect, nSessions,
                   phase>>
    /\ UNCHANGED <<updaterControllers, managerVars>>

\* ---------------------------------------------------------- DirectFileSaver

DirectFailures == {"none", "mkdir", "write", "open", "diagnostics"}

\* The content saveDirectly writes, with the default options.
ProcessedContent(content) == NormalizeEOL(StripAllBOMs(content), DetectLineEnding(content))

\* The steps of seq up to the first step named last.
UpTo(seq, last) == SubSeq(seq, 1, CHOOSE i \in 1..Len(seq) : seq[i] = last)

\* The steps saveDirectly carries out, in order, up to the one that raises.
SaveDirectlySteps(diagnosticsEnabled, failAt) ==
    LET all == <<"captureDiagnostics", "createDirectories", "writeFile", "showTextDocument">>
               \o (IF diagnosticsEnabled THEN <<"processNewDiagnostics">> ELSE <<>>)
    IN  IF failAt = "mkdir" THEN UpTo(all, "createDirectories")
        ELSE IF failAt = "write" THEN UpTo(all, "writeFile")
        ELSE IF failAt = "open" THEN UpTo(all, "showTextDocument")
        ELSE all

\* DirectFileSaver.saveDirectly(p, content, {openFile: true, diagnosticsEnabled})
\* on the files fs and the directories existing: the result, the files and
\* directories after it and the writes it made.
SaveDirectlyOutcome(fs, existing, p, content, diagnosticsEnabled, problems, failAt) ==
    LET created == CreateDirectoriesForFile(existing, p)
        made == failAt # "mkdir"
        written == made /\ failAt # "write"
        processed == ProcessedContent(content)
    IN  [ret |-> IF failAt # "none" THEN Failure(failAt, p)
                 ELSE [NoRet EXCEPT
                          !.newProblemsMessage = IF diagnosticsEnabled THEN problems ELSE Empty,
                          !.finalContent = processed],
         dirs |-> IF made THEN existing \cup SeqToSet(created) ELSE existing,
         files |-> IF written THEN [fs EXCEPT ![p] = processed] ELSE fs,
         writes |-> IF written THEN <<[path |-> p, content |-> processed]>> ELSE <<>>]

\* DiffViewCoordinator.saveDirectly(p, content, openFile, diagnosticsEnabled).
SaveDirectly(p, content, diagnosticsEnabled, problems, failAt) ==
    /\ failAt = "diagnostics" => diagnosticsEnabled
    /\ call' = [CallOf("saveDirectly", FALSE, content) EXCEPT
                   !.steps = SaveDirectlySteps(diagnosticsEnabled, failAt)]
    /\ LET out == SaveDirectlyOutcome(files, dirs, p, content, diagnosticsEnabled, problems, failAt)
       IN  /\ dirs' = out.dirs
           /\ files' = out.files
           /\ writeLog' = out.writes
           /\ ret' = out.ret
           /\ IF failAt # "none"
              THEN UNCHANGED <<relPath, newContent, newProblemsMessage, userEdits>>
              ELSE /\ newProblemsMessage' = out.ret.newProblemsMessage
                   /\ userEdits' = out.ret.userEdits
                   /\ relPath' = p
                   /\ newContent' = content
    /\ nDirect' = nDirect + 1
    /\ UNCHANGED <<editType, isEditing, originalContent, createdDirs, activeDiffEditor,
                   controllers, streamedLines, docPath, docText, docDirty, diffTabOpen,
                   session, nUpdates, nSessions, phase>>
    /\ UNCHANGED <<updaterControllers, managerVars>>

\* The steps of the backup that may fail: readFile and the writeFile of the
\* backup.
BackupFailures == {"none", "read", "write"}

\* A save that takes no backup.
BackupTaken_Never(exists, backupFailAt) == FALSE

\* Whether saveWithBackup writes the backup file.
BackupTaken(exists, backupFailAt) == exists /\ backupFailAt = "none"

\* DirectFileSaver.saveWithBackup(p, content) at the time now: the backup of
\* an existing target, its failure swallowed, then saveDirectly.
SaveWithBackup(p, content, now, backupFailAt, failAt) ==
    LET fileExists == files[p] # Undefined
        backup == BackupPath(p, now)
        taken == BackupTaken(fileExists, backupFailAt)
        kept == IF taken THEN [files EXCEPT ![backup] = files[p]] ELSE files
        out == SaveDirectlyOutcome(kept, dirs, p, content, TRUE, Empty, failAt)
    IN  /\ backupFailAt # "none" => fileExists
        /\ failAt \in DirectFailures
        /\ call' = [CallOf("saveWithBackup", FALSE, content) EXCEPT
                       !.steps = <<"fileExists">>
                                 \o (IF fileExists THEN <<"readFile">> ELSE <<>>)
                                 \o (IF fileExists /\ backupFailAt # "read"
                                     THEN <<"writeBackup">> ELSE <<>>)
                                 \o (IF fileExists /\ backupFailAt # "none"
                                     THEN <<"warn">> ELSE <<>>)
                                 \o SaveDirectlySteps(TRUE, failAt)]
        /\ files' = out.files
        /\ dirs' = out.dirs
        /\ writeLog' = (IF taken THEN <<[path |-> backup, content |-> files[p]]>> ELSE <<>>)
                       \o out.writes
        /\ ret' = IF out.ret.raised THEN out.ret
                  ELSE [out.ret EXCEPT !.backupPath = IF taken THEN backup ELSE Undefined]
        /\ nDirect' = nDirect + 1
        /\ UNCHANGED <<coordVars, streamedLines, docPath, docText, docDirty, diffTabOpen,
                       session, nUpdates, nSessions, phase>>
        /\ UNCHANGED <<updaterControllers, managerVars>>

\* ------------------------------------------------------ DiffViewManager

\* closeAllDiffViews: the subsystem's tabs that are not dirty are closed.
\* The comparison tab is dirty when its document is.
TabAfterCloseAll(open, dirty) == open /\ dirty

\* -------------------------------------------------- DiffViewCoordinator

\* The steps of open that may raise: readFile, the writeFile of
\* createEmptyFile, openDiffEditor.
OpenFailures == {"none", "read", "write", "editor"}

\* A record of every directory above the path, created or not.
CreatedDirs_Ancestors(existing, p) == Ancestors(p)

\* What open stores in createdDirs: the directories createDirectoriesForFile
\* reports as created.
CreatedDirs(existing, p) == CreateDirectoriesForFile(existing, p)

\* Whether open reaches the step that raises.
OpenFailureOccurs(failAt, kind) ==
    /\ failAt = "read" => kind = "modify"
    /\ failAt = "write" => kind = "create"

\* The steps open carries out, in order, up to the one that raises.
OpenSteps(kind, savesExisting, failAt) ==
    LET all == (IF savesExisting THEN <<"saveDocument">> ELSE <<>>)
               \o <<"captureDiagnostics">>
               \o (IF kind = "modify" THEN <<"readFile">> ELSE <<>>)
               \o <<"createDirectories">>
               \o (IF kind = "create" THEN <<"createEmptyFile">> ELSE <<>>)
               \o <<"closeTabs", "openDiffEditor", "setupDecorations">>
    IN  IF failAt = "read" THEN UpTo(all, "readFile")
        ELSE IF failAt = "write" THEN UpTo(all, "createEmptyFile")
        ELSE IF failAt = "editor" THEN UpTo(all, "openDiffEditor")
        ELSE all

\* open(p), after the caller has set editType from the file's existence: a
\* dirty document of an existing file is saved, the diagnostics are captured,
\* the original content is read, the directories and the empty file are
\* created, the comparison editor is opened and the decorations are set up.
Open(p, failAt) ==
    /\ ~isEditing
    /\ LET kind == IF files[p] # Undefined THEN "modify" ELSE "create"
           savesExisting == kind = "modify" /\ docPath = p /\ docDirty
           saved == IF savesExisting THEN [files EXCEPT ![p] = docText] ELSE files
           original == IF kind = "modify" THEN saved[p] ELSE Empty
           created == CreatedDirs(dirs, p)
           read == failAt # "read"
           written == read /\ failAt # "write"
           shown == written /\ failAt # "editor"
           disk == IF kind = "create" /\ written THEN [saved EXCEPT ![p] = Empty] ELSE saved
           keepsDirty == docPath = p /\ docDirty /\ ~savesExisting
       IN  /\ OpenFailureOccurs(failAt, kind)
           /\ call' = [NoCall EXCEPT !.op = "open",
                                     !.steps = OpenSteps(kind, savesExisting, failAt)]
           /\ ret' = IF failAt = "none" THEN NoRet ELSE Failure(failAt, p)
           /\ relPath' = p
           /\ editType' = kind
           /\ isEditing' = TRUE
           /\ originalContent' = IF read THEN original ELSE originalContent
           /\ createdDirs' = IF read THEN created ELSE createdDirs
           /\ dirs' = IF read THEN dirs \cup SeqToSet(created) ELSE dirs
           /\ files' = disk
           /\ writeLog' = IF kind = "create" /\ written
                          THEN <<[path |-> p, content |-> Empty]>> ELSE <<>>
           /\ IF shown
              THEN /\ docPath' = p
                   /\ docText' = IF keepsDirty THEN docText ELSE disk[p]
                   /\ docDirty' = keepsDirty
                   /\ diffTabOpen' = TRUE
                   /\ activeDiffEditor' = TRUE
                   /\ controllers' = TRUE
                   /\ updaterControllers' = TRUE
              ELSE /\ docDirty' = IF savesExisting THEN FALSE ELSE docDirty
                   /\ UNCHANGED <<docPath, docText, diffTabOpen, activeDiffEditor,
                                  controllers, updaterControllers>>
           /\ LET decorations == IF shown THEN InitializeDecorations(LineCount(docText'))
                                 ELSE Decorations(session.faded, session.active)
              IN  session' = [NoSession EXCEPT !.path = p, !.kind = kind,
                                               !.original = original, !.created = created,
                                               !.faded = decorations.faded,
                                               !.active = decorations.active]
    /\ nUpdates' = 0
    /\ nSessions' = nSessions + 1
    /\ UNCHANGED <<newContent, newProblemsMessage, userEdits, streamedLines, nDirect, phase>>
    /\ UNCHANGED managerVars

\* An update that is refused once the session has been saved.
UpdateAccepted_Guarded == relPath # Undefined /\ controllers /\ session.ended = "no"

\* A first check that looks at the path alone.
UpdateAccepted_PathOnly == relPath # Undefined

\* Whether update passes its first check ("Required values not set").
UpdateAccepted == relPath # Undefined /\ controllers

\* A scroll decision taken for the lines off the screen.
ShouldScrollEditor_OffScreen(ranges, endLine) ==
    ranges # <<>> /\ (endLine < ranges[1].start \/ endLine > ranges[1].end)

\* StreamingContentUpdater.shouldScrollEditor
ShouldScrollEditor(ranges, endLine) ==
    ranges # <<>> /\ ranges[1].start < endLine /\ ranges[1].end > endLine

\* update(accumulatedContent, isFinal) while the editor shows visibleRanges.
UpdateSeen(accumulatedContent, isFinal, visibleRanges) ==
    /\ LET endLine == SplitLength(accumulatedContent)
           updated == UpdateAccepted /\ activeDiffEditor
       IN  call' = [CallOf("update", isFinal, accumulatedContent) EXCEPT
                       !.visible = IF updated THEN visibleRanges ELSE <<>>,
                       !.scrolledTo = IF updated /\ ShouldScrollEditor(visibleRanges, endLine)
                                      THEN <<endLine>> ELSE <<>>]
    /\ writeLog' = <<>>
    /\ IF ~UpdateAccepted
       THEN /\ ret' = Raised("Required values not set")
            /\ session' = [session EXCEPT !.lastUpdate = accumulatedContent]
            /\ UNCHANGED <<newContent, streamedLines, docText, docDirty, nUpdates>>
       ELSE /\ newContent' = accumulatedContent
            /\ IF ~activeDiffEditor
               THEN /\ ret' = Raised("User closed text editor, unable to edit file...")
                    /\ session' = [session EXCEPT !.lastUpdate = accumulatedContent]
                    /\ UNCHANGED <<streamedLines, docText, docDirty, nUpdates>>
               ELSE /\ docText' = UpdateStreamingContent(docText, accumulatedContent, isFinal,
                                                         originalContent)
                    /\ docDirty' = TRUE
                    /\ streamedLines' = AccumulatedLines(accumulatedContent, isFinal)
                    /\ ret' = NoRet
                    /\ session' = [session EXCEPT
                                      !.finalized = isFinal,
                                      !.faded = IF updaterControllers
                                                THEN UpdateStreamingDecorations(
                                                         Decorations(session.faded, session.active),
                                                         docText, accumulatedContent, isFinal).faded
                                                ELSE @,
                                      !.active = IF updaterControllers
                                                 THEN UpdateStreamingDecorations(
                                                          Decorations(session.faded, session.active),
                                                          docText, accumulatedContent, isFinal).active
                                                 ELSE @,
                                      !.lastUpdate = accumulatedContent,
                                      !.firstReplace =
                                          FirstReplaceText(accumulatedContent, isFinal),
                                      !.lastReplace =
                                          IF isFinal
                                          THEN LastReplaceText(accumulatedContent, originalContent)
                                          ELSE @]
                    /\ nUpdates' = nUpdates + 1
    /\ UNCHANGED <<relPath, editType, isEditing, originalContent, createdDirs,
                   activeDiffEditor, controllers, newProblemsMessage, userEdits,
                   docPath, files, dirs, diffTabOpen, nDirect, nSessions, phase>>
    /\ UNCHANGED <<updaterControllers, managerVars>>

\* update(accumulatedContent, isFinal) on an editor with no visible range.
Update(accumulatedContent, isFinal) == UpdateSeen(accumulatedContent, isFinal, <<>>)

\* The user types in the comparison editor: the document becomes text.
UserEdit(text) ==
    /\ isEditing
    /\ activeDiffEditor
    /\ session.ended = "no"
    /\ text # docText
    /\ docText' = text
    /\ docDirty' = TRUE
    /\ session' = [session EXCEPT !.typed = TRUE]
    /\ UNCHANGED <<coordVars, streamedLines, docPath, files, dirs, diffTabOpen,
                   call, ret, writeLog, nUpdates, nDirect, nSessions, phase>>
    /\ UNCHANGED <<updaterControllers, managerVars>>

\* The user closes the comparison editor's tab.  Nothing in the coordinator
\* listens for it: the editor handle it holds stays set, and the document
\* can still be edited through its URI.
UserClosesEditor ==
    /\ isEditing
    /\ activeDiffEditor
    /\ session.ended = "no"
    /\ diffTabOpen
    /\ diffTabOpen' = FALSE
    /\ session' = [session EXCEPT !.closed = TRUE]
    /\ UNCHANGED <<coordVars, streamedLines, docPath, docText, docDirty, files, dirs,
                   call, ret, writeLog, nUpdates, nDirect, nSessions, phase>>
    /\ UNCHANGED <<updaterControllers, managerVars>>

\* Whether saveChanges returns at once: !relPath || !newContent || !editor.
\* An empty string is falsy.
SaveSkipped ==
    relPath = Undefined \/ newContent = Undefined \/ newContent = Empty \/ ~activeDiffEditor

\* saveChanges(diagnosticsEnabled, writeDelayMs)
SaveChanges(diagnosticsEnabled, problems, failAt) ==
    /\ SaveFailureOccurs(failAt, docDirty, diagnosticsEnabled)
    /\ call' = [CallOf("saveChanges", FALSE, newContent) EXCEPT !.skipped = SaveSkipped]
    /\ IF SaveSkipped
       THEN /\ failAt = "none"
            /\ ret' = NoRet
            /\ writeLog' = <<>>
            /\ UNCHANGED <<newProblemsMessage, userEdits, files, docDirty, diffTabOpen, session>>
       ELSE LET out == SaveChangesOutcome(files, docPath, docText, docDirty, relPath,
                                          newContent, diagnosticsEnabled, problems, failAt)
            IN  /\ diffTabOpen' = TabAfterCloseAll(diffTabOpen, docDirty)
                /\ files' = out.files
                /\ docDirty' = out.dirty
                /\ ret' = out.ret
                /\ writeLog' = out.writes
                /\ IF out.ret.raised
                   THEN UNCHANGED <<newProblemsMessage, userEdits, session>>
                   ELSE /\ newProblemsMessage' = out.ret.newProblemsMessage
                        /\ userEdits' = out.ret.userEdits
                        /\ session' = [session EXCEPT !.ended = "saved"]
    /\ UNCHANGED <<relPath, editType, isEditing, originalContent, createdDirs, newContent,
                   activeDiffEditor, controllers, streamedLines, docPath, docText, dirs,
                   nUpdates, nDirect, nSessions, phase>>
    /\ UNCHANGED <<updaterControllers, managerVars>>

\* pushToolWriteResult(task, cwd, isNewFile): raises without a path, else
\* hands relPath, userEdits and newProblemsMessage to the handler.
PushToolWriteResult(isNewFile) ==
    /\ call' = CallOf("pushToolWriteResult", isNewFile, newContent)
    /\ writeLog' = <<>>
    /\ ret' = IF relPath = Undefined
              THEN Raised("No file path available in DiffViewCoordinator")
              ELSE LET out == PushToolWriteResultOutcome(PathText(relPath), isNewFile,
                                                         userEdits, newProblemsMessage)
                   IN  [NoRet EXCEPT !.said = out.said, !.payload = out.payload]
    /\ UNCHANGED <<coordVars, streamedLines, hostVars, session, nUpdates, nDirect, nSessions,
                   phase>>
    /\ UNCHANGED <<updaterControllers, managerVars>>

\* The decorations after StreamingContentUpdater.reset().
UpdaterReset(sess) ==
    IF updaterControllers THEN ClearDecorations(Decorations(sess.faded, sess.active))
    ELSE Decorations(sess.faded, sess.active)

\* The directories whose removal the host may refuse for a reason of its own.
DeniedDirs == {{}, {<<"d", "e">>}}

\* The steps of DiffOperationHandler.revertChanges that may raise.
RevertFailures == {"none", "save", "delete", "show"}

\* Whether revertChanges reaches the step that raises.
RevertFailureOccurs(failAt, kind, dirty) ==
    /\ failAt = "save" => (kind = "create" => dirty)
    /\ failAt = "delete" => kind = "create"
    /\ failAt = "show" => kind # "create"

\* A revert that restores the original content as it was read.
RestoredContent_Unstripped(original) == original

\* The text revertChanges puts back into the document of an existing file.
RestoredContent(original) == StripAllBOMs(original)

\* A cleanup that removes the directories in creation order.
CleanedDirectories_Forward(fs, existing, created, denied) ==
    LET reversed == [i \in 1..Len(created) |-> created[Len(created) + 1 - i]]
    IN  RemoveDirectories(fs, existing, reversed, denied)

\* The directories left by the cleanup of revertChanges.
CleanedDirectories(fs, existing, created, denied) ==
    RemoveDirectories(fs, existing, created, denied)

\* DiffOperationHandler.revertChanges: for a new file the document is saved
\* if dirty, the file deleted and the created directories removed; for an
\* existing file the document is replaced by the original content and saved.
RevertChangesOutcome(fs, existing, dPath, text, dirty, rel, original, kind, created, failAt, denied) ==
    IF kind = "create"
    THEN LET saved == dirty /\ failAt # "save"
             fs1 == IF saved THEN [fs EXCEPT ![dPath] = text] ELSE fs
             dirty1 == IF saved THEN FALSE ELSE dirty
             missing == fs1[rel] = Undefined
             fs2 == [fs1 EXCEPT ![rel] = Undefined]
             cleaned == CleanedDirectories(fs2, existing, created, denied)
         IN  IF failAt = "save"
             THEN [ret |-> Raised("save"), files |-> fs1, dirs |-> existing,
                   text |-> text, dirty |-> dirty1, rmdirs |-> <<>>]
             ELSE IF failAt = "delete" \/ missing
             THEN [ret |-> FileError("delete", rel), files |-> fs1, dirs |-> existing,
                   text |-> text, dirty |-> dirty1, rmdirs |-> <<>>]
             ELSE [ret |-> NoRet, files |-> fs2, dirs |-> cleaned.dirs,
                   text |-> text, dirty |-> dirty1, rmdirs |-> cleaned.attempts]
    ELSE LET restored == RestoredContent(original)
         IN  IF failAt = "save"
             THEN [ret |-> Raised("save"), files |-> fs, dirs |-> existing,
                   text |-> restored, dirty |-> TRUE, rmdirs |-> <<>>]
             ELSE [ret |-> IF failAt = "show" THEN Raised("show") ELSE NoRet,
                   files |-> [fs EXCEPT ![dPath] = restored], dirs |-> existing,
                   text |-> restored, dirty |-> FALSE, rmdirs |-> <<>>]

\* Whether revertChanges returns at once: !relPath || !activeDiffEditor.
RevertSkipped == relPath = Undefined \/ ~activeDiffEditor

\* revertChanges(): closeAllDiffViews, the handler's revertChanges, reset().
\* denied are the directories whose rmdir the host refuses.
RevertChanges(failAt, denied) ==
    /\ writeLog' = <<>>
    /\ IF RevertSkipped
       THEN /\ failAt = "none"
            /\ denied = {}
            /\ call' = [CallOf("revertChanges", FALSE, newContent) EXCEPT !.skipped = TRUE]
            /\ ret' = NoRet
            /\ UNCHANGED <<coordVars, streamedLines, docText, docDirty, files, dirs,
                           diffTabOpen, session, nUpdates>>
       ELSE /\ RevertFailureOccurs(failAt, editType, docDirty)
            /\ LET out == RevertChangesOutcome(files, dirs, docPath, docText, docDirty, relPath,
                                               IF originalContent = Undefined THEN Empty
                                               ELSE originalContent,
                                               editType, createdDirs, failAt, denied)
               IN  /\ call' = [CallOf("revertChanges", FALSE, newContent)
                                  EXCEPT !.rmdirs = out.rmdirs]
                   /\ files' = out.files
                   /\ dirs' = out.dirs
                   /\ docText' = out.text
                   /\ docDirty' = out.dirty
                   /\ ret' = out.ret
                   /\ IF out.ret.raised
                      THEN /\ diffTabOpen' = TabAfterCloseAll(diffTabOpen, docDirty)
                           /\ UNCHANGED <<coordVars, streamedLines, session, nUpdates>>
                      ELSE /\ diffTabOpen' = TabAfterCloseAll(diffTabOpen, out.dirty)
                           /\ editType' = "undefined"
                           /\ isEditing' = FALSE
                           /\ originalContent' = Undefined
                           /\ createdDirs' = <<>>
                           /\ activeDiffEditor' = FALSE
                           /\ controllers' = FALSE
                           /\ newProblemsMessage' = Undefined
                           /\ userEdits' = Undefined
                           /\ relPath' = Undefined
                           /\ newContent' = Undefined
                           /\ streamedLines' = <<>>
                           /\ session' = [session EXCEPT
                                             !.ended = "reverted",
                                             !.faded = UpdaterReset(session).faded,
                                             !.active = UpdaterReset(session).active]
                           /\ nUpdates' = 0
    /\ UNCHANGED <<docPath, nDirect, nSessions, phase>>
    /\ UNCHANGED <<updaterControllers, managerVars>>

\* reset()
Reset ==
    /\ call' = CallOf("reset", FALSE, newContent)
    /\ ret' = NoRet
    /\ writeLog' = <<>>
    /\ diffTabOpen' = TabAfterCloseAll(diffTabOpen, docDirty)
    /\ editType' = "undefined"
    /\ isEditing' = FALSE
    /\ originalContent' = Undefined
    /\ createdDirs' = <<>>
    /\ activeDiffEditor' = FALSE
    /\ controllers' = FALSE
    /\ newProblemsMessage' = Undefined
    /\ userEdits' = Undefined
    /\ relPath' = Undefined
    /\ newContent' = Undefined
    /\ streamedLines' = <<>>
    /\ nUpdates' = 0
    /\ session' = [session EXCEPT
                      !.ended = IF @ = "no" THEN "reset" ELSE @,
                      !.faded = UpdaterReset(session).faded,
                      !.active = UpdaterReset(session).active]
    /\ UNCHANGED <<docPath, docText, docDirty, files, dirs, nDirect, nSessions, phase>>
    /\ UNCHANGED <<updaterControllers, managerVars>>

\* ------------------------------------------- DiffViewManager.openDiffEditor

\* DiffViewManager.DIFF_EDITOR_TIMEOUT, in milliseconds.
DIFF_EDITOR_TIMEOUT == 10000

\* The delay of the timer in seconds, as the timeout message prints it.
TimeoutSeconds == DIFF_EDITOR_TIMEOUT \div 1000

\* Most openDiffEditor calls in one run.
MaxInvocations == 2

\* Most host events waiting to be delivered.
MaxEvents == 2

\* Most document-opened handlers waiting behind their setTimeout(0).
MaxContinuations == 1

\* The file openDiffEditor is called for.
Target == <<"f">>

\* The original sides a comparison is opened with.
Originals == {"o1", "o2"}

NoError == [text |-> "", path |-> Undefined, seconds |-> 0]

\* "Failed to open diff editor for <path> within <n> seconds. ..."
TimeoutError ==
    [text |-> "Failed to open diff editor", path |-> Target, seconds |-> TimeoutSeconds]

\* "Failed to execute diff command for <path>: <message>"
CommandError == [text |-> "Failed to execute diff command", path |-> Target, seconds |-> 0]

\* No call made yet.
NoPromise == [state |-> "none", editor |-> "none", error |-> NoError, reused |-> FALSE]

PendingPromise == [NoPromise EXCEPT !.state = "pending"]

Resolved(editor) == [NoPromise EXCEPT !.state = "resolved", !.editor = editor]

Rejected(error) == [NoPromise EXCEPT !.state = "rejected", !.error = error]

\* A settling that overrides an earlier one.
Settle_Last(p, outcome) == outcome

\* resolve(...) and reject(...) of a promise: only the first one settles it.
Settle(p, outcome) == IF p.state = "pending" THEN outcome ELSE p

\* A cleanup that leaves the listeners registered.
CleanupListeners_Kept(registered) == registered

\* cleanup(): every disposable is disposed.
CleanupListeners(registered) == {}

\* cleanup(): the timer is cleared.
CleanupTimer(armed) == FALSE

\* A timer callback that only cleans up.
OnTimeout_Silent(p) == p

\* The timer callback's reject(...).
OnTimeout(p) == Settle(p, Rejected(TimeoutError))

\* An exit path: cleanup(), then the promise is given the outcome.
Exit(settled, outcome) ==
    /\ timerArmed' = CleanupTimer(timerArmed)
    /\ listeners' = CleanupListeners(listeners)
    /\ promise' = settled
    /\ firstExit' = IF firstExit = NoPromise THEN outcome ELSE firstExit

NoChain == [stage |-> "idle", original |-> "none", invoked |-> FALSE]

\* Whether the chain may still open its comparison tab.
ChainUnderWay(c) == c.stage \in {"preopen", "preopened", "command"}

\* A search that finds no open comparison tab.
FindExistingDiffTab_Never(open) == FALSE

\* findExistingDiffTab(uri): a comparison tab of the reserved scheme whose
\* modified side is the target.
FindExistingDiffTab(open) == open # {}

DocumentOpened == [kind |-> "documentOpened", editors |-> {}]

\* onDidChangeVisibleTextEditors carries the editors visible when it fired.
VisibleEditorsChanged(editors) == [kind |-> "visibleEditors", editors |-> editors]

\* The host adds events to those waiting, as far as the queue's bound goes.
Fires(more) ==
    /\ events' = events \cup more
    /\ Cardinality(events') <= MaxEvents

\* openDiffEditor(relPath, originalContent, cwd, editType), called when the
\* previous call has settled. Handlers left over from the previous call act
\* on its settled promise and are forgotten.
OpenDiffEditor(original) ==
    /\ nInvocations < MaxInvocations
    /\ promise.state # "pending"
    /\ nInvocations' = nInvocations + 1
    /\ late' = IF ChainUnderWay(chain) THEN late \cup {chain.original} ELSE late
    /\ continuations' = 0
    /\ firstExit' = NoPromise
    /\ IF FindExistingDiffTab(diffTabs)
       THEN /\ promise' = [Resolved("diff") EXCEPT !.reused = TRUE]
            /\ chain' = NoChain
            /\ visible' = visible \cup {"diff"}
            /\ Fires(IF "diff" \in visible THEN {} ELSE {VisibleEditorsChanged(visible')})
            /\ editorSeen' = TRUE
            /\ UNCHANGED <<timerArmed, elapsed, listeners>>
       ELSE /\ promise' = PendingPromise
            /\ timerArmed' = TRUE
            /\ elapsed' = 0
            /\ listeners' = {"documentOpened", "visibleEditors"}
            /\ chain' = [stage |-> "preopen", original |-> original, invoked |-> FALSE]
            /\ editorSeen' = (visible # {})
            /\ UNCHANGED <<visible, events>>
    /\ UNCHANGED <<documentOpen, diffTabs>>
    /\ UNCHANGED <<coordinatorVars, tabVars, diagVars, textVars>>

\* The host carries out the pre-open showTextDocument(uri): the target is
\* shown in a plain text editor.
HostShowsText ==
    /\ chain.stage = "preopen"
    /\ chain' = [chain EXCEPT !.stage = "preopened"]
    /\ documentOpen' = TRUE
    /\ visible' = visible \cup {"text"}
    /\ Fires((IF documentOpen THEN {} ELSE {DocumentOpened})
             \cup (IF "text" \in visible THEN {} ELSE {VisibleEditorsChanged(visible')}))
    /\ editorSeen' = TRUE
    /\ UNCHANGED <<promise, timerArmed, elapsed, listeners, late, diffTabs, continuations,
                   firstExit, nInvocations>>
    /\ UNCHANGED <<coordinatorVars, tabVars, diagVars, textVars>>

\* The pre-open is fulfilled: executeCommand("vscode.diff", ...) is invoked.
PreOpenReturns ==
    /\ chain.stage = "preopened"
    /\ chain' = [chain EXCEPT !.stage = "command", !.invoked = TRUE]
    /\ UNCHANGED <<promise, timerArmed, elapsed, listeners, late, documentOpen, diffTabs,
                   visible, events, continuations, firstExit, editorSeen, nInvocations>>
    /\ UNCHANGED <<coordinatorVars, tabVars, diagVars, textVars>>

\* The pre-open is rejected: the rejection handler cleans up and rejects.
PreOpenFails ==
    /\ chain.stage = "preopen"
    /\ chain' = [chain EXCEPT !.stage = "failed"]
    /\ Exit(Settle(promise, Rejected(CommandError)), Rejected(CommandError))
    /\ UNCHANGED <<elapsed, late, documentOpen, diffTabs, visible, events, continuations,
                   editorSeen, nInvocations>>
    /\ UNCHANGED <<coordinatorVars, tabVars, diagVars, textVars>>

\* The host carries out the comparison command: a comparison tab of the
\* chain's original side shows the target on its right, in place of the plain
\* text editor or beside it.
HostShowsDiff(keepText) ==
    /\ chain.stage = "command"
    /\ chain' = [chain EXCEPT !.stage = "shown"]
    /\ diffTabs' = diffTabs \cup {chain.original}
    /\ visible' = (IF keepText THEN visible ELSE visible \ {"text"}) \cup {"diff"}
    /\ Fires(IF visible' = visible THEN {} ELSE {VisibleEditorsChanged(visible')})
    /\ editorSeen' = TRUE
    /\ UNCHANGED <<promise, timerArmed, elapsed, listeners, late, documentOpen, continuations,
                   firstExit, nInvocations>>
    /\ UNCHANGED <<coordinatorVars, tabVars, diagVars, textVars>>

\* The comparison command is fulfilled: nothing to do but wait.
CommandReturns ==
    /\ chain.stage = "shown"
    /\ chain' = [chain EXCEPT !.stage = "done"]
    /\ UNCHANGED <<promise, timerArmed, elapsed, listeners, late, documentOpen, diffTabs,
                   visible, events, continuations, firstExit, editorSeen, nInvocations>>
    /\ UNCHANGED <<coordinatorVars, tabVars, diagVars, textVars>>

\* The comparison command is rejected: the rejection handler cleans up and
\* rejects.
CommandFails ==
    /\ chain.stage = "command"
    /\ chain' = [chain EXCEPT !.stage = "failed"]
    /\ Exit(Settle(promise, Rejected(CommandError)), Rejected(CommandError))
    /\ UNCHANGED <<elapsed, late, documentOpen, diffTabs, visible, events, continuations,
                   editorSeen, nInvocations>>
    /\ UNCHANGED <<coordinatorVars, tabVars, diagVars, textVars>>

\* The comparison command of an earlier call, whose promise settled before
\* the command ran, is carried out by the host.
LateDiffShows(original) ==
    /\ original \in late
    /\ late' = late \ {original}
    /\ diffTabs' = diffTabs \cup {original}
    /\ visible' = visible \cup {"diff"}
    /\ Fires(IF visible' = visible THEN {} ELSE {VisibleEditorsChanged(visible')})
    /\ editorSeen' = TRUE
    /\ UNCHANGED <<promise, timerArmed, elapsed, listeners, chain, documentOpen,
                   continuations, firstExit, nInvocations>>
    /\ UNCHANGED <<coordinatorVars, tabVars, diagVars, textVars>>

\* The target's document is opened in the host without being shown.
HostOpensDocument ==
    /\ ~documentOpen
    /\ documentOpen' = TRUE
    /\ Fires({DocumentOpened})
    /\ UNCHANGED <<promise, timerArmed, elapsed, listeners, chain, late, diffTabs, visible,
                   continuations, firstExit, editorSeen, nInvocations>>
    /\ UNCHANGED <<coordinatorVars, tabVars, diagVars, textVars>>

\* onDidOpenTextDocument is delivered: the listener, if still registered,
\* finds the paths equal and waits for setTimeout(0).
DeliverDocumentOpened ==
    /\ DocumentOpened \in events
    /\ events' = events \ {DocumentOpened}
    /\ IF "documentOpened" \in listeners
       THEN /\ continuations < MaxContinuations
            /\ continuations' = continuations + 1
       ELSE UNCHANGED continuations
    /\ UNCHANGED <<promise, timerArmed, elapsed, listeners, chain, late, documentOpen,
                   diffTabs, visible, firstExit, editorSeen, nInvocations>>
    /\ UNCHANGED <<coordinatorVars, tabVars, diagVars, textVars>>

\* The document-opened handler goes on after setTimeout(0): it looks for a
\* visible editor of the target and, if there is one, cleans up and resolves.
ContinuationRuns ==
    /\ continuations > 0
    /\ continuations' = continuations - 1
    /\ IF visible # {}
       THEN \E editor \in visible :
               Exit(Settle(promise, Resolved(editor)), Resolved(editor))
       ELSE UNCHANGED <<promise, timerArmed, listeners, firstExit>>
    /\ UNCHANGED <<elapsed, chain, late, documentOpen, diffTabs, visible, events,
                   editorSeen, nInvocations>>
    /\ UNCHANGED <<coordinatorVars, tabVars, diagVars, textVars>>

\* onDidChangeVisibleTextEditors is delivered: the listener, if still
\* registered, looks for an editor of the target among those of the event and,
\* if there is one, cleans up and resolves.
DeliverVisibleEditors(event) ==
    /\ event \in events
    /\ event.kind = "visibleEditors"
    /\ events' = events \ {event}
    /\ IF "visibleEditors" \in listeners /\ event.editors # {}
       THEN \E editor \in event.editors :
               Exit(Settle(promise, Resolved(editor)), Resolved(editor))
       ELSE UNCHANGED <<promise, timerArmed, listeners, firstExit>>
    /\ UNCHANGED <<elapsed, chain, late, documentOpen, diffTabs, visible, continuations,
                   editorSeen, nInvocations>>
    /\ UNCHANGED <<coordinatorVars, tabVars, diagVars, textVars>>

\* A second passes while the timer is set.
Tick ==
    /\ timerArmed
    /\ elapsed < TimeoutSeconds
    /\ elapsed' = elapsed + 1
    /\ UNCHANGED <<promise, timerArmed, listeners, chain, late, documentOpen, diffTabs,
                   visible, events, continuations, firstExit, editorSeen, nInvocations>>
    /\ UNCHANGED <<coordinatorVars, tabVars, diagVars, textVars>>

\* The timer fires after DIFF_EDITOR_TIMEOUT: cleanup, then reject.
TimerFires ==
    /\ timerArmed
    /\ elapsed = TimeoutSeconds
    /\ Exit(OnTimeout(promise), Rejected(TimeoutError))
    /\ UNCHANGED <<elapsed, chain, late, documentOpen, diffTabs, visible, events,
                   continuations, editorSeen, nInvocations>>
    /\ UNCHANGED <<coordinatorVars, tabVars, diagVars, textVars>>

\* No openDiffEditor call has been made; the host shows nothing of the target.
InitOpenDiffEditor ==
    /\ promise = NoPromise
    /\ timerArmed = FALSE
    /\ elapsed = 0
    /\ listeners = {}
    /\ chain = NoChain
    /\ late = {}
    /\ documentOpen = FALSE
    /\ diffTabs = {}
    /\ visible = {}
    /\ events = {}
    /\ continuations = 0
    /\ firstExit = NoPromise
    /\ editorSeen = FALSE
    /\ nInvocations = 0

\* --------------------------------------- DiffViewManager.closeAllDiffViews

\* Most tabs in the window.
MaxTabs == 2

\* Most closeAllDiffViews calls in one run.
MaxCloses == 2

DIFF_VIEW_URI_SCHEME == "cline-diff"

DIFF_VIEW_LABEL_CHANGES == "Original <-> Roo's Changes"

\* Tab labels, as the parts they are put together from: the comparison of an
\* existing file, the comparison of a new file, a plain editor.
Labels ==
    {<<"f", ": ", DIFF_VIEW_LABEL_CHANGES, " (Editable)">>,
     <<"f", ": ", "New File", " (Editable)">>,
     <<"f">>}

\* label.includes(fragment)
Includes(label, fragment) == \E i \in 1..Len(label) : label[i] = fragment

\* The tabs a window can hold: a comparison tab (TabInputTextDiff) with the
\* scheme of its original side, or a plain text tab; each with its label,
\* dirty or not, and with a close request that the host fulfils or rejects.
TabKinds ==
    [input : {"diff"}, scheme : {DIFF_VIEW_URI_SCHEME, "file"}, label : Labels,
     isDirty : BOOLEAN, closeFails : BOOLEAN]
    \cup [input : {"text"}, scheme : {"none"}, label : Labels,
          isDirty : BOOLEAN, closeFails : BOOLEAN]

\* A filter that does not look at isDirty.
ShouldClose_Dirty(tab) ==
    \/ tab.input = "diff" /\ tab.scheme = DIFF_VIEW_URI_SCHEME
    \/ Includes(tab.label, DIFF_VIEW_LABEL_CHANGES)

\* The filter of closeAllDiffViews.
ShouldClose(tab) ==
    IF tab.input = "diff" /\ tab.scheme = DIFF_VIEW_URI_SCHEME /\ ~tab.isDirty
    THEN TRUE
    ELSE IF Includes(tab.label, DIFF_VIEW_LABEL_CHANGES) /\ ~tab.isDirty
    THEN TRUE
    ELSE FALSE

\* A Promise.all over close requests without rejection handlers.
CloseAllRaises_Unhandled(requested) == \E i \in requested : tabs[i].closeFails

\* Whether Promise.all(closeOps) rejects: every close request has a rejection
\* handler that logs the error.
CloseAllRaises(requested) == FALSE

\* closeAllDiffViews(): the host is asked to close every open tab the filter
\* lets through, and closes those whose request it does not reject.
CloseAllDiffViews ==
    /\ nCloses < MaxCloses
    /\ nCloses' = nCloses + 1
    /\ openBefore' = openTabs
    /\ closeRequested' = {i \in openTabs : ShouldClose(tabs[i])}
    /\ openTabs' = openTabs \ {i \in closeRequested' : ~tabs[i].closeFails}
    /\ closeRaised' = CloseAllRaises(closeRequested')
    /\ UNCHANGED tabs
    /\ UNCHANGED <<coordinatorVars, openVars, diagVars, textVars>>

\* No closeAllDiffViews call has been made; the window has no tabs.
InitTabs ==
    /\ tabs = <<>>
    /\ openTabs = {}
    /\ openBefore = {}
    /\ closeRequested = {}
    /\ closeRaised = FALSE
    /\ nCloses = 0

\* ------------------------------------------------------ DiagnosticsManager

\* The default of maxDiagnosticMessages.
DefaultMaxDiagnosticMessages == 50

\* Largest maxDiagnosticMessages a task's settings hold.
MaxMessages == 2

\* Most steps taken around the diagnostics manager in one run.
MaxDiagnosticSteps == 3

\* The diagnostics the host may report: two errors and a warning, in two files.
Diagnostics ==
    {[file |-> "f", id |-> 1, severity |-> "error"],
     [file |-> "f", id |-> 2, severity |-> "warning"],
     [file |-> "g", id |-> 3, severity |-> "error"]}

\* What the state holds when the task or its provider cannot be reached.
SettingsGone ==
    [reachable |-> FALSE, includeDiagnosticMessages |-> FALSE, maxDiagnosticMessages |-> 0]

\* The settings of the task's provider, if the task and it can be reached.
DiagnosticSettings ==
    {SettingsGone}
    \cup [reachable : {TRUE}, includeDiagnosticMessages : BOOLEAN,
          maxDiagnosticMessages : 1..MaxMessages]

\* "\n\nNew problems detected after saving the file:\n"
Banner == "New problems detected after saving the file:"

\* getNewDiagnostics: the diagnostics of the post snapshot absent from the pre
\* snapshot.
GetNewDiagnostics(pre, post) == post \ pre

\* The diagnostics of ds, one formatted entry each, files and positions in order.
RECURSIVE Formatted(_)
Formatted(ds) ==
    IF ds = {} THEN <<>>
    ELSE LET first == CHOOSE d \in ds : \A other \in ds : d.id <= other.id
         IN  <<[file |-> first.file, id |-> first.id]>> \o Formatted(ds \ {first})

\* The first n entries of seq.
Take(seq, n) == SubSeq(seq, 1, IF n < Len(seq) THEN n ELSE Len(seq))

\* diagnosticsToProblemsString: nothing when the messages are not to be
\* included; else the diagnostics of the given severities, up to the maximum
\* count.
DiagnosticsToProblemsString(ds, severities, includeDiagnosticMessages, maxDiagnosticMessages) ==
    IF ~includeDiagnosticMessages THEN <<>>
    ELSE Take(Formatted({d \in ds : d.severity \in severities}), maxDiagnosticMessages)

\* A default path that lets warnings through.
ReportedSeverities_WithWarnings == {"error", "warning"}

\* The severities processNewDiagnostics asks for.
ReportedSeverities == {"error"}

\* state?.includeDiagnosticMessages ?? true
IncludeDiagnosticMessages(settings) ==
    IF settings.reachable THEN settings.includeDiagnosticMessages ELSE TRUE

\* state?.maxDiagnosticMessages ?? 50
MaxDiagnosticMessages(settings) ==
    IF settings.reachable THEN settings.maxDiagnosticMessages ELSE DefaultMaxDiagnosticMessages

\* The message processNewDiagnostics returns; the empty string is <<>>.
NewProblemsMessage(pre, post, settings) ==
    LET newProblems ==
            DiagnosticsToProblemsString(GetNewDiagnostics(pre, post), ReportedSeverities,
                                        IncludeDiagnosticMessages(settings),
                                        MaxDiagnosticMessages(settings))
    IN  IF Len(newProblems) > 0 THEN <<Banner>> \o newProblems ELSE <<>>

NotDiagnosed == [done |-> FALSE, pre |-> {}, post |-> {}, settings |-> SettingsGone, message |-> <<>>]

\* One more step is taken around the diagnostics manager.
DiagnosticStep == nDiagnostics < MaxDiagnosticSteps /\ nDiagnostics' = nDiagnostics + 1

\* captureDiagnostics()
CaptureDiagnostics ==
    /\ DiagnosticStep
    /\ preDiagnostics' = hostDiagnostics
    /\ UNCHANGED <<hostDiagnostics, diagnosed>>
    /\ UNCHANGED <<coordinatorVars, openVars, tabVars, textVars>>

\* The linters report: the host's diagnostics become ds.
HostReportsDiagnostics(ds) ==
    /\ DiagnosticStep
    /\ ds # hostDiagnostics
    /\ hostDiagnostics' = ds
    /\ UNCHANGED <<preDiagnostics, diagnosed>>
    /\ UNCHANGED <<coordinatorVars, openVars, tabVars, textVars>>

\* processNewDiagnostics(writeDelayMs, cwd), the delay being over.
ProcessNewDiagnostics(settings) ==
    /\ DiagnosticStep
    /\ diagnosed' = [done |-> TRUE, pre |-> preDiagnostics, post |-> hostDiagnostics,
                     settings |-> settings,
                     message |-> NewProblemsMessage(preDiagnostics, hostDiagnostics, settings)]
    /\ UNCHANGED <<preDiagnostics, hostDiagnostics>>
    /\ UNCHANGED <<coordinatorVars, openVars, tabVars, textVars>>

\* A new diagnostics manager: no snapshot captured, nothing reported.
InitDiagnostics ==
    /\ preDiagnostics = {}
    /\ hostDiagnostics = {}
    /\ diagnosed = NotDiagnosed
    /\ nDiagnostics = 0

\* --------------------------------------- FileContentManager, called in turn

\* Longest text given to the first call in SpecText.
MaxTextLen == 4

\* Most calls made on one text in SpecText.
MaxTextCalls == 2

\* A call of stripAllBOMs, and of normalizeEOL with its target.
StripCall == [fn |-> "stripAllBOMs", targetEOL |-> Empty]

NormalizeCall(targetEOL) == [fn |-> "normalizeEOL", targetEOL |-> targetEOL]

\* stripAllBOMs(text), on the result of the call before.
StripAllBOMsCall ==
    /\ Len(textCalls) < MaxTextCalls
    /\ textBefore' = textOut
    /\ textOut' = StripAllBOMs(textOut)
    /\ textCalls' = Append(textCalls, StripCall)
    /\ UNCHANGED <<textIn, coordinatorVars, openVars, tabVars, diagVars>>

\* normalizeEOL(text, targetEOL), on the result of the call before.
NormalizeEOLCall(targetEOL) ==
    /\ Len(textCalls) < MaxTextCalls
    /\ textBefore' = textOut
    /\ textOut' = NormalizeEOL(textOut, targetEOL)
    /\ textCalls' = Append(textCalls, NormalizeCall(targetEOL))
    /\ UNCHANGED <<textIn, coordinatorVars, openVars, tabVars, diagVars>>

\* No text function has been called.
InitText ==
    /\ textIn = Empty
    /\ textBefore = Empty
    /\ textOut = Empty
    /\ textCalls = <<>>

InitManager == InitOpenDiffEditor /\ InitTabs /\ InitDiagnostics /\ InitText

\* --------------------------------------------------------- specifications

\* Most sessions opened in one run of Spec.
MaxSessions == 1

\* Most saveDirectly calls in one run of Spec.
MaxDirect == 1

\* Most operations carried out on the coordinator in one run.
MaxCalls == 5

StreamTexts == TextsOver(StreamChars, MaxStreamLen)

LifeTexts == TextsOver(LifeChars, MaxLifeLen)

EditTexts == TextsOver(Chars, MaxEditLen)

PropTexts == TextsOver(Chars, MaxPropLen)

\* The coordinator as constructed.
InitCoordinator ==
    /\ relPath = Undefined
    /\ editType = "undefined"
    /\ isEditing = FALSE
    /\ originalContent = Undefined
    /\ createdDirs = <<>>
    /\ newContent = Undefined
    /\ activeDiffEditor = FALSE
    /\ controllers = FALSE
    /\ newProblemsMessage = Undefined
    /\ userEdits = Undefined
    /\ streamedLines = <<>>
    /\ updaterControllers = FALSE

InitGhost ==
    /\ call = NoCall
    /\ ret = NoRet
    /\ writeLog = <<>>
    /\ session = NoSession
    /\ nUpdates = 0
    /\ nDirect = 0
    /\ nSessions = 0
    /\ nCalls = 0

\* A new coordinator in a workspace that holds the file "f", and perhaps
\* the directory "d".
Init ==
    /\ InitCoordinator
    /\ InitGhost
    /\ InitManager
    /\ phase = "coordinator"
    /\ docPath = Undefined
    /\ docText = Empty
    /\ docDirty = FALSE
    /\ diffTabOpen = FALSE
    /\ \E original \in LifeTexts : files = [NoFiles EXCEPT ![<<"f">>] = original]
    /\ dirs \in {{}, {<<"d">>}}

\* One more operation is carried out.
Counted == nCalls < MaxCalls /\ nCalls' = nCalls + 1

Next ==
    \/ \E p \in Paths, failAt \in {"none", "read", "write"} :
          nSessions < MaxSessions /\ Open(p, failAt) /\ Counted
    \/ \E c \in LifeTexts, isFinal \in BOOLEAN :
          nUpdates < MaxUpdates /\ Update(c, isFinal) /\ Counted
    \/ \E t \in LifeTexts : UserEdit(t) /\ Counted
    \/ UserClosesEditor /\ Counted
    \/ \E m \in {Empty, ProblemsMessage}, failAt \in {"none", "write"} :
          SaveChanges(TRUE, m, failAt) /\ Counted
    \/ \E failAt \in {"none", "delete"}, denied \in DeniedDirs :
          RevertChanges(failAt, denied) /\ Counted
    \/ Reset /\ Counted
    \/ \E p \in Paths, c \in LifeTexts, failAt \in {"none", "write"} :
          nDirect < MaxDirect /\ SaveDirectly(p, c, TRUE, Empty, failAt) /\ Counted

Spec == Init /\ [][Next]_vars

\* DiffOperationHandler.saveChanges and DirectFileSaver.saveDirectly called on
\* their own, on every editor text and every proposed content: the editor
\* shows the file "f", whose document is dirty or not.
InitSave ==
    /\ InitGhost
    /\ InitManager
    /\ relPath = <<"f">>
    /\ editType = "modify"
    /\ isEditing = TRUE
    /\ originalContent = <<"a">>
    /\ createdDirs = <<>>
    /\ activeDiffEditor = TRUE
    /\ controllers = TRUE
    /\ newProblemsMessage = Undefined
    /\ userEdits = Undefined
    /\ streamedLines = <<>>
    /\ updaterControllers = TRUE
    /\ docPath = <<"f">>
    /\ diffTabOpen = TRUE
    /\ dirs = {}
    /\ \/ /\ phase = "save"
          /\ docText \in EditTexts
          /\ docDirty \in BOOLEAN
          /\ newContent \in PropTexts
       \/ /\ phase = "direct"
          /\ docText = <<"a">>
          /\ docDirty = FALSE
          /\ newContent = Undefined
    /\ files = [NoFiles EXCEPT ![<<"f">>] = IF docDirty THEN originalContent ELSE docText]

NextSave ==
    \/ \E d \in BOOLEAN, m \in {Empty, ProblemsMessage}, failAt \in SaveFailures :
          HandlerSaveChanges(d, m, failAt) /\ Counted
    \/ \E p \in Paths, c \in EditTexts, d \in BOOLEAN, m \in {Empty, ProblemsMessage},
          failAt \in DirectFailures :
          phase = "direct" /\ nDirect = 0 /\ SaveDirectly(p, c, d, m, failAt) /\ Counted

SpecSave == InitSave /\ [][NextSave]_vars

\* Longest text handed to pushToolWriteResult called on its own.
MaxResultLen == 2

\* The characters of the texts handed to pushToolWriteResult.
ResultChars == {"a", "&", "<", ">", "\"", "'"}

ResultTexts == TextsOver(ResultChars, MaxResultLen)

\* The path texts handed to it: one character each.
ResultPaths == TextsOver(ResultChars, 1) \ {Empty}

\* What follows a session: the coordinator's saveChanges on every editor text
\* and proposed content, then pushToolWriteResult; and the handler's
\* pushToolWriteResult on its own.
InitResult ==
    /\ InitGhost
    /\ InitManager
    /\ relPath = <<"f">>
    /\ editType = "modify"
    /\ isEditing = TRUE
    /\ originalContent = <<"a">>
    /\ createdDirs = <<>>
    /\ activeDiffEditor = TRUE
    /\ controllers = TRUE
    /\ newProblemsMessage = Undefined
    /\ userEdits = Undefined
    /\ streamedLines = <<>>
    /\ updaterControllers = TRUE
    /\ docPath = <<"f">>
    /\ diffTabOpen = TRUE
    /\ dirs = {}
    /\ docDirty = TRUE
    /\ files = [NoFiles EXCEPT ![<<"f">>] = originalContent]
    /\ \/ /\ phase = "coordinator"
          /\ docText \in PropTexts
          /\ newContent \in PropTexts
       \/ /\ phase = "result"
          /\ docText = <<"a">>
          /\ newContent = <<"a">>

NextResult ==
    \/ /\ phase = "coordinator" /\ call.op = "none"
       /\ \E m \in {Empty, ProblemsMessage}, failAt \in {"none", "write"} :
             SaveChanges(TRUE, m, failAt) /\ Counted
    \/ /\ phase = "coordinator" /\ call.op = "saveChanges"
       /\ \E isNewFile \in BOOLEAN : PushToolWriteResult(isNewFile) /\ Counted
    \/ /\ phase = "result" /\ call.op = "none"
       /\ \E pathText \in ResultPaths, isNewFile \in BOOLEAN,
             edits \in ResultTexts \cup {Undefined}, m \in ResultTexts \cup {Undefined} :
             HandlerPushToolWriteResult(pathText, isNewFile, edits, m) /\ Counted

SpecResult == InitResult /\ [][NextResult]_vars

\* Longest content handed to saveDirectly in SpecSaver.
MaxDirectLen == 4

\* Most saves with a backup in one run of SpecSaver.
MaxBackups == 2

DirectChars == {"a", "LF", "CR", "FEFF"}

DirectTexts == TextsOver(DirectChars, MaxDirectLen)

\* The file saver on a coordinator as constructed, the file f there or not.
InitSaver ==
    /\ InitCoordinator
    /\ InitGhost
    /\ InitManager
    /\ phase = "saver"
    /\ docPath = Undefined
    /\ docText = Empty
    /\ docDirty = FALSE
    /\ diffTabOpen = FALSE
    /\ \E original \in LifeTexts \cup {Undefined} :
          files = [NoFiles EXCEPT ![<<"f">>] = original]
    /\ dirs \in {{}, {<<"d">>}}

\* saveDirectly with the default options on any content, or up to
\* MaxBackups saves with a backup.
NextSaver ==
    \/ /\ call.op = "none"
       /\ \E p \in Paths, c \in DirectTexts, failAt \in {"none", "write"} :
             SaveDirectly(p, c, TRUE, Empty, failAt) /\ Counted
    \/ /\ call.op # "saveDirectly" /\ nDirect < MaxBackups
       /\ \E p \in {<<"f">>, <<"d", "g">>}, c \in LifeTexts, now \in Timestamps,
             backupFailAt \in BackupFailures, failAt \in {"none", "write"} :
             SaveWithBackup(p, c, now, backupFailAt, failAt) /\ Counted

SpecSaver == InitSaver /\ [][NextSaver]_vars

\* One producer's session with nobody typing: open, then the updates
\* update(c1, false) ... update(cn, true), each awaited before the next, then
\* saveChanges. The file "f" holds any original content; the other paths are
\* new files.
InitStream ==
    /\ InitCoordinator
    /\ InitGhost
    /\ InitManager
    /\ phase = "coordinator"
    /\ docPath = Undefined
    /\ docText = Empty
    /\ docDirty = FALSE
    /\ diffTabOpen = FALSE
    /\ \E original \in StreamTexts : files = [NoFiles EXCEPT ![<<"f">>] = original]
    /\ dirs = {}

NextStream ==
    \/ \E p \in {<<"f">>, <<"d", "g">>} :
          nSessions < MaxSessions /\ Open(p, "none") /\ Counted
    \/ \E c \in StreamTexts, isFinal \in BOOLEAN :
          /\ isEditing /\ session.ended = "no" /\ ~session.finalized
          /\ nUpdates < MaxUpdates
          /\ Update(c, isFinal)
          /\ Counted
    \/ isEditing /\ session.ended = "no" /\ SaveChanges(TRUE, Empty, "none") /\ Counted

SpecStream == InitStream /\ [][NextStream]_vars

\* Last line an editor's visible range reaches in SpecScroll.
MaxVisibleLine == 3

\* What the editor may show when update looks: nothing, or one range of lines.
VisibleRanges ==
    {<<>>} \cup {<<LineRange(r[1], r[2])>> :
                    r \in {x \in (0..MaxVisibleLine) \X (0..MaxVisibleLine) : x[1] <= x[2]}}

\* One producer's session while the user scrolls the editor at will.
NextScroll ==
    \/ nSessions < MaxSessions /\ Open(<<"f">>, "none") /\ Counted
    \/ \E c \in StreamTexts, isFinal \in BOOLEAN, v \in VisibleRanges :
          /\ isEditing /\ session.ended = "no" /\ ~session.finalized
          /\ nUpdates < MaxUpdates
          /\ UpdateSeen(c, isFinal, v)
          /\ Counted

SpecScroll == InitStream /\ [][NextScroll]_vars

\* How sessions begin: open and saveDirectly called on a new coordinator while
\* the host already holds a document of the file "f", dirty or not.
InitEntry ==
    /\ InitCoordinator
    /\ InitGhost
    /\ InitManager
    /\ phase = "entry"
    /\ docPath = <<"f">>
    /\ docText \in LifeTexts
    /\ docDirty \in BOOLEAN
    /\ diffTabOpen = FALSE
    /\ \E original \in LifeTexts :
          /\ files = [NoFiles EXCEPT ![<<"f">>] = original]
          /\ ~docDirty => docText = original
    /\ dirs \in {{}, {<<"d">>}}

NextEntry ==
    \/ \E p \in Paths, failAt \in OpenFailures :
          nSessions < MaxSessions /\ Open(p, failAt) /\ Counted
    \/ \E p \in Paths, c \in LifeTexts, d \in BOOLEAN, failAt \in DirectFailures :
          nDirect < MaxDirect /\ SaveDirectly(p, c, d, Empty, failAt) /\ Counted

SpecEntry == InitEntry /\ [][NextEntry]_vars

\* An open that may fail at any of its steps, and the revertChanges that
\* follows it.
NextCleanup ==
    \/ \E p \in Paths, failAt \in OpenFailures :
          nSessions < MaxSessions /\ Open(p, failAt) /\ Counted
    \/ /\ call.op = "open"
       /\ \E failAt \in {"none", "delete"}, denied \in DeniedDirs :
             RevertChanges(failAt, denied) /\ Counted

SpecCleanup == InitEntry /\ [][NextCleanup]_vars

\* The diagnostics manager between linters that report at any time: capture,
\* reports and processNewDiagnostics in any order.
InitDiagnose ==
    /\ InitCoordinator
    /\ InitGhost
    /\ InitOpenDiffEditor
    /\ InitTabs
    /\ InitText
    /\ phase = "diagnostics"
    /\ docPath = Undefined
    /\ docText = Empty
    /\ docDirty = FALSE
    /\ diffTabOpen = FALSE
    /\ files = [NoFiles EXCEPT ![<<"f">>] = Empty]
    /\ dirs = {}
    /\ preDiagnostics = {}
    /\ hostDiagnostics \in SUBSET Diagnostics
    /\ diagnosed = NotDiagnosed
    /\ nDiagnostics = 0

NextDiagnose ==
    \/ CaptureDiagnostics
    \/ \E ds \in SUBSET Diagnostics : HostReportsDiagnostics(ds)
    \/ \E settings \in DiagnosticSettings : ProcessNewDiagnostics(settings)

SpecDiagnose == InitDiagnose /\ [][NextDiagnose]_vars

\* openDiffEditor called for the file "f", each call awaited before the next,
\* in a host that shows editors, delivers its events and lets time pass in
\* any order.
InitOpen ==
    /\ InitCoordinator
    /\ InitGhost
    /\ InitOpenDiffEditor
    /\ InitTabs
    /\ InitDiagnostics
    /\ InitText
    /\ phase = "openDiffEditor"
    /\ docPath = Undefined
    /\ docText = Empty
    /\ docDirty = FALSE
    /\ diffTabOpen = FALSE
    /\ files = [NoFiles EXCEPT ![Target] = Empty]
    /\ dirs = {}

NextOpen ==
    \/ \E original \in Originals : OpenDiffEditor(original)
    \/ HostShowsText
    \/ PreOpenReturns
    \/ PreOpenFails
    \/ \E keepText \in BOOLEAN : HostShowsDiff(keepText)
    \/ CommandReturns
    \/ CommandFails
    \/ \E original \in Originals : LateDiffShows(original)
    \/ HostOpensDocument
    \/ DeliverDocumentOpened
    \/ ContinuationRuns
    \/ \E event \in events : DeliverVisibleEditors(event)
    \/ Tick
    \/ TimerFires

SpecOpen == InitOpen /\ [][NextOpen]_vars

\* closeAllDiffViews called on a window that holds any tabs.
InitClose ==
    /\ InitCoordinator
    /\ InitGhost
    /\ InitOpenDiffEditor
    /\ InitDiagnostics
    /\ InitText
    /\ phase = "closeAllDiffViews"
    /\ docPath = Undefined
    /\ docText = Empty
    /\ docDirty = FALSE
    /\ diffTabOpen = FALSE
    /\ files = [NoFiles EXCEPT ![Target] = Empty]
    /\ dirs = {}
    /\ \E n \in 0..MaxTabs : tabs \in [1..n -> TabKinds]
    /\ openTabs = 1..Len(tabs)
    /\ openBefore = {}
    /\ closeRequested = {}
    /\ closeRaised = FALSE
    /\ nCloses = 0

NextClose == CloseAllDiffViews

SpecClose == InitClose /\ [][NextClose]_vars

\* stripAllBOMs and normalizeEOL called in turn on every text of at most
\* MaxTextLen code points, each on the result of the call before.
InitTexts ==
    /\ InitCoordinator
    /\ InitGhost
    /\ InitOpenDiffEditor
    /\ InitTabs
    /\ InitDiagnostics
    /\ phase = "text"
    /\ docPath = Undefined
    /\ docText = Empty
    /\ docDirty = FALSE
    /\ diffTabOpen = FALSE
    /\ files = [NoFiles EXCEPT ![<<"f">>] = Empty]
    /\ dirs = {}
    /\ textIn \in TextsOver(Chars, MaxTextLen)
    /\ textBefore = textIn
    /\ textOut = textIn
    /\ textCalls = <<>>

NextText ==
    \/ StripAllBOMsCall
    \/ \E targetEOL \in {LF, CRLF} : NormalizeEOLCall(targetEOL)

SpecText == InitTexts /\ [][NextText]_vars

\* Timers of the event loop fire: time passes while the timer is set, and the
\* timer's callback runs once its delay has passed.
SpecOpenFair == SpecOpen /\ WF_vars(Tick) /\ WF_vars(TimerFires)

(***************************************************************************)
(* Properties of the streaming updates (SpecStream)                        *)
(***************************************************************************)

\* The accumulated content cn, plus one trailing "\n" exactly when the
\* original ends with "\n" and cn does not.
WithOriginalNewline(cn, original) ==
    IF EndsWithLF(original) /\ ~EndsWithLF(cn) THEN cn \o LF ELSE cn

\* The last call was a final update, and it completed.
FinalUpdateCompleted == call.op = "update" /\ call.isFinal /\ ~ret.raised

\* C1: once the final update of a producer sequence update(c1, false) ...
\* update(cn, true) completes, the document text equals cn, plus one trailing
\* "\n" exactly when the original ends with "\n" and cn does not: nothing of
\* the original, of an earlier ci, or repeated from cn is left.
C1_FinalDocumentIsLastContent ==
    FinalUpdateCompleted =>
        docText = WithOriginalNewline(call.proposed, session.original)

\* The last call was a saveChanges that ran to its end, in a session whose
\* final update was made and in which the user typed nothing.
SavedUntouchedSession ==
    /\ call.op = "saveChanges"
    /\ ~ret.raised
    /\ session.ended = "saved"
    /\ session.finalized
    /\ ~session.typed

\* C2: in a session open -> update(..., true) -> saveChanges in which the
\* user typed nothing, saveChanges returns userEdits absent, whatever the
\* trailing newlines of the original and of the final proposed content.
C2_NoUserEditsWithoutTyping ==
    SavedUntouchedSession => ret.userEdits = Undefined

(***************************************************************************)
(* Properties of saveChanges and saveDirectly (SpecSave)                   *)
(***************************************************************************)

\* s without any U+FEFF or U+FFFE, the other characters kept in order.
WithoutBOMs(s) == SelectSeq(s, LAMBDA c : c \notin {"FEFF", "FFFE"})

HasBOM(s) == \E i \in 1..Len(s) : s[i] \in {"FEFF", "FFFE"}

HasCRLF(s) == \E i \in 1..(Len(s) - 1) : s[i] = "CR" /\ s[i + 1] = "LF"

\* An LF that no CR precedes.
HasBareLF(s) == \E i \in 1..Len(s) : s[i] = "LF" /\ (i = 1 \/ s[i - 1] # "CR")

\* The handler's saveChanges was called and returned a result.
HandlerSaved == phase = "done" /\ call.op = "saveChanges" /\ ~ret.raised

\* The editor text as the written content is specified: BOMs
\* stripped, line endings normalized to the style of the proposed content.
CleanEditorText == NormalizeEOL(WithoutBOMs(docText), DetectLineEnding(call.proposed))

\* The proposed content normalized to its own detected style.
CleanProposedContent == NormalizeEOL(call.proposed, DetectLineEnding(call.proposed))

C4_UserEditsAreRawEditorText ==
    HandlerSaved =>
        ret.userEdits = IF CleanEditorText = CleanProposedContent THEN Undefined ELSE docText

\* The user left a text with a BOM and a CRLF, reported unaltered.
C4_Witness ==
    /\ HandlerSaved
    /\ ret.userEdits = docText
    /\ HasBOM(docText)
    /\ HasCRLF(docText)

\* s with every CRLF written as LF.
RECURSIVE CRLFToLF(_)
CRLFToLF(s) ==
    IF Len(s) = 0 THEN <<>>
    ELSE IF Len(s) >= 2 /\ s[1] = "CR" /\ s[2] = "LF"
    THEN LF \o CRLFToLF(SubSeq(s, 3, Len(s)))
    ELSE <<s[1]>> \o CRLFToLF(Tail(s))

\* Two texts that differ at most by BOM code points and line-ending style.
SameButArtifacts(s, t) == CRLFToLF(WithoutBOMs(s)) = CRLFToLF(WithoutBOMs(t))

\* C5: if the editor text and the proposed content differ only by BOM code
\* points, present in either of the two, and/or by line-ending style,
\* saveChanges reports no user edits.
C5_ArtifactsAreNoUserEdits ==
    (HandlerSaved /\ SameButArtifacts(docText, call.proposed)) => ret.userEdits = Undefined

\* C6: if saveChanges fails at any step, the target file on disk is exactly
\* as it was before the call.
C6_FailedSaveLeavesFile ==
    [][(phase = "save" /\ call'.op = "saveChanges" /\ ret'.raised) => files' = files]_vars

\* The content of the last writeFile has no BOM and a single line-ending
\* style, which is the target style when that is LF.
CleanWrite(target) ==
    \A i \in 1..Len(writeLog) :
        LET content == writeLog[i].content
        IN  /\ ~HasBOM(content)
            /\ ~(HasCRLF(content) /\ HasBareLF(content))
            /\ (target = LF => ~HasCRLF(content))

\* C9: every content written by saveChanges, and by saveDirectly with
\* default options, contains no U+FEFF or U+FFFE and has a single
\* line-ending style: never both a CRLF and a bare LF, and no CRLF when the
\* detected target style is LF.
C9_WrittenContentIsClean ==
    call.op \in {"saveChanges", "saveDirectly"} => CleanWrite(DetectLineEnding(call.proposed))

(***************************************************************************)
(* Properties of the session's life cycle (Spec)                           *)
(***************************************************************************)

\* The last call was a revertChanges that did its work and returned.
RevertReturned == call.op = "revertChanges" /\ ~call.skipped /\ ~ret.raised

\* C7: for a Create session, when revertChanges returns the session's file
\* does not exist and none of the directories created for it exists.
C7_CreateRevertRemovesFileAndDirectories ==
    (RevertReturned /\ session.kind = "create") =>
        /\ files[session.path] = Undefined
        /\ \A i \in 1..Len(session.created) : session.created[i] \notin dirs

\* C8: for a Modify session, when revertChanges returns the document's full
\* text is the BOM-stripped original content captured at open and the
\* document has been saved, whatever updates or user edits came before.
C8_ModifyRevertRestoresOriginal ==
    (RevertReturned /\ session.kind = "modify") =>
        /\ docText = WithoutBOMs(session.original)
        /\ ~docDirty
        /\ files[docPath] = docText

\* A Modify session on an original that holds a BOM, reverted after the
\* user typed and an update was applied.
C8_Witness ==
    /\ RevertReturned
    /\ session.kind = "modify"
    /\ HasBOM(session.original)
    /\ session.typed
    /\ nCalls >= 4

\* C10: after saveChanges or revertChanges has completed for a session and
\* before the next open, every update call is either rejected with an error
\* or changes neither the document nor any session field.
C10_UpdateAfterTerminalIsInert ==
    [][(session.ended \in {"saved", "reverted"} /\ call'.op = "update")
          => \/ ret'.raised
             \/ /\ docText' = docText
                /\ docDirty' = docDirty
                /\ coordVars' = coordVars
                /\ streamedLines' = streamedLines]_vars

\* The step is an update call.
UpdateStep == call'.op = "update" /\ Update(call'.proposed, call'.isFinal)

\* C11: if the user closes the comparison editor while a session is Editing,
\* the next update call fails with an error instead of applying the content
\* or silently dropping it.
C11_UpdateAfterCloseFails ==
    [][(isEditing /\ session.ended = "no" /\ session.closed /\ UpdateStep)
          => ret'.raised]_vars

\* getState(): what the coordinator reports of itself.
GetState ==
    [isEditing |-> isEditing,
     editType |-> editType,
     relPath |-> relPath,
     hasOriginalContent |-> originalContent # Undefined /\ originalContent # Empty,
     hasNewContent |-> newContent # Undefined /\ newContent # Empty,
     hasActiveDiffEditor |-> activeDiffEditor,
     createdDirsCount |-> Len(createdDirs),
     streamingStats |-> [totalLines |-> Len(streamedLines),
                         hasContent |-> Len(streamedLines) > 0,
                         isActive |-> updaterControllers]]

\* getState() of a newly constructed coordinator.
NewState ==
    [isEditing |-> FALSE,
     editType |-> "undefined",
     relPath |-> Undefined,
     hasOriginalContent |-> FALSE,
     hasNewContent |-> FALSE,
     hasActiveDiffEditor |-> FALSE,
     createdDirsCount |-> 0,
     streamingStats |-> [totalLines |-> 0, hasContent |-> FALSE, isActive |-> FALSE]]

\* Every per-session field of the coordinator has its initial value.
FieldsCleared ==
    /\ relPath = Undefined
    /\ editType = "undefined"
    /\ isEditing = FALSE
    /\ originalContent = Undefined
    /\ newContent = Undefined
    /\ createdDirs = <<>>
    /\ activeDiffEditor = FALSE
    /\ controllers = FALSE
    /\ newProblemsMessage = Undefined
    /\ userEdits = Undefined
    /\ streamedLines = <<>>

\* C12: from every reachable state, reset completes without raising and
\* leaves every per-session field at its initial value, so that getState()
\* equals that of a newly constructed coordinator.
C12_ResetRestoresNewState ==
    call.op = "reset" => (~ret.raised /\ FieldsCleared /\ GetState = NewState)

\* The step is carried out inside a session whose open succeeded and which
\* has not been reset.
InOpenSession == isEditing /\ activeDiffEditor

\* C13: between a successful open and the following reset, no update,
\* saveChanges or saveDirectly changes the session's relPath, editType or
\* originalContent.
C13_SessionIdentityIsFixed ==
    [][(InOpenSession /\ call'.op \in {"update", "saveChanges", "saveDirectly"})
          => (relPath' = relPath /\ editType' = editType
              /\ originalContent' = originalContent)]_vars

\* C14: after every update call during a session, failed or not, final or not,
\* newContent is the accumulated content passed to the most recent update call,
\* so that saveChanges uses the content of the last update.
C14_NewContentIsLastUpdate ==
    (isEditing /\ session.lastUpdate # Undefined) => newContent = session.lastUpdate

\* C15: when saveChanges or revertChanges has run and returned successfully,
\* no comparison view is left open for the session's file, also when the
\* comparison document was dirty from streaming at the time of the call.
C15_ViewClosedAfterSaveOrRevert ==
    (call.op \in {"saveChanges", "revertChanges"} /\ ~call.skipped /\ ~ret.raised)
        => ~diffTabOpen

\* The promise of a call that did not reuse an open tab has settled.
WaitSettled == promise.state \in {"resolved", "rejected"} /\ ~promise.reused

\* C16: on every exit path of openDiffEditor's wait and under every
\* interleaving of the host's events, the outcome of the promise is that of
\* the first exit path taken, and afterward both listeners are disposed and
\* the timer is cleared.
C16_FirstExitWinsAndCleansUp ==
    /\ WaitSettled => firstExit # NoPromise
    /\ firstExit # NoPromise => (promise = firstExit /\ listeners = {} /\ ~timerArmed)

\* The promise was resolved by a listener, and the comparison command failed
\* afterwards: a second exit path was taken after the first.
C16_Witness ==
    /\ WaitSettled
    /\ promise.state = "resolved"
    /\ chain.stage = "failed"
    /\ C16_FirstExitWinsAndCleansUp

\* The wait has ended although no editor of the target was ever visible.
SettledUnseen == WaitSettled /\ ~editorSeen

\* C17 as stated: if no comparison tab is open for the path and no editor of
\* the target ever becomes visible after the call, the promise is rejected by
\* the 10-second timer, with the error that names the path and the 10 seconds.
C17_RejectedOnlyByTimer ==
    SettledUnseen => (promise = Rejected(TimeoutError) /\ elapsed = TimeoutSeconds)

\* C17: if no comparison tab is open for the path, no editor of the target
\* ever becomes visible after the call, and neither the pre-open nor the
\* comparison command fails, the promise is rejected when the 10-second timer
\* fires, with the error that names the path and the 10 seconds; and no
\* promise stays pending forever.
C17_TimesOutWhenNothingShows ==
    /\ []((SettledUnseen /\ chain.stage # "failed")
            => (promise = Rejected(TimeoutError) /\ elapsed = TimeoutSeconds))
    /\ (promise.state = "pending") ~> (promise.state \in {"resolved", "rejected"})

\* The host never carried out the pre-open, and the timer has rejected the
\* promise.
C17_Witness ==
    /\ SettledUnseen
    /\ chain.stage = "preopen"
    /\ promise = Rejected(TimeoutError)
    /\ promise.error.path = Target
    /\ promise.error.seconds = 10

\* C18: openDiffEditor resolves only after the comparison command has been
\* invoked, and with the comparison view's right-side editor, never with the
\* plain text editor of the pre-open.
C18_ResolvesWithComparisonEditor ==
    (WaitSettled /\ promise.state = "resolved")
        => (chain.invoked /\ promise.editor = "diff")

\* The last call found a comparison tab open and returned its editor: no
\* command was invoked, no listener registered and no timer started.
ReusedWithoutOpening ==
    promise.reused =>
        /\ promise = [Resolved("diff") EXCEPT !.reused = TRUE]
        /\ chain = NoChain
        /\ listeners = {}
        /\ ~timerArmed

\* C19: a call that finds a comparison tab open for the path returns that
\* tab's modified-side editor without invoking the command, registering a
\* listener or starting the timer; so repeated calls for one path never leave
\* two comparison views open for it.
C19_NoDuplicateComparisonView ==
    ReusedWithoutOpening /\ Cardinality(diffTabs) <= 1

\* The tab belongs to the subsystem: a comparison tab whose original side has
\* the reserved scheme, or a tab whose label contains the reserved fragment.
BelongsToSubsystem(tab) ==
    \/ tab.input = "diff" /\ tab.scheme = "cline-diff"
    \/ \E i \in 1..Len(tab.label) : tab.label[i] = "Original <-> Roo's Changes"

\* C20: closeAllDiffViews asks to close exactly the open tabs that are not
\* dirty and belong to the subsystem; it never closes a dirty tab, and a
\* rejected close request neither keeps the other tabs from being closed nor
\* raises to the caller.
C20_ClosesExactlyCleanSubsystemTabs ==
    nCloses > 0 =>
        /\ closeRequested =
              {i \in openBefore : ~tabs[i].isDirty /\ BelongsToSubsystem(tabs[i])}
        /\ \A i \in openBefore : tabs[i].isDirty => i \in openTabs
        /\ \A i \in closeRequested : ~tabs[i].closeFails => i \notin openTabs
        /\ openTabs \subseteq openBefore
        /\ ~closeRaised

\* Of two subsystem tabs asked to be closed, the host rejected the request for
\* the first and closed the second.
C20_Witness ==
    /\ nCloses = 1
    /\ Len(tabs) = 2
    /\ closeRequested = {1, 2}
    /\ tabs[1].closeFails
    /\ openTabs = {1}
    /\ ~closeRaised

\* The steps that change the file system or a document.
MutatingSteps == {"saveDocument", "createDirectories", "createEmptyFile", "writeFile"}

\* C21: in every session, captureDiagnostics runs before any step of open or
\* of saveDirectly that changes the file system or a document.
C21_CaptureBeforeMutation ==
    \A i \in 1..Len(call.steps) :
        call.steps[i] \in MutatingSteps
            => \E j \in 1..(i - 1) : call.steps[j] = "captureDiagnostics"

\* The error-severity diagnostics of the post snapshot absent from the pre
\* snapshot, at the last processNewDiagnostics call.
NewErrors == {d \in diagnosed.post \ diagnosed.pre : d.severity = "error"}

\* The message is the banner followed by new error diagnostics only.
BannerAndErrors(message) ==
    /\ Len(message) > 1
    /\ message[1] = Banner
    /\ \A i \in 2..Len(message) :
          \E d \in NewErrors : message[i] = [file |-> d.file, id |-> d.id]

FileFailureStep ==
    /\ nCalls' = nCalls + 1
    /\ call'.op \in {"open", "saveChanges", "revertChanges"}
    /\ ret'.raised
    /\ ret'.error \in FileFailures

\* Whether the step clears no field of the coordinator that was set.
NoFieldCleared ==
    /\ relPath # Undefined => relPath' # Undefined
    /\ editType # "undefined" => editType' # "undefined"
    /\ isEditing => isEditing'
    /\ originalContent # Undefined => originalContent' # Undefined
    /\ createdDirs # <<>> => createdDirs' = createdDirs
    /\ newContent # Undefined => newContent' = newContent
    /\ activeDiffEditor => activeDiffEditor'
    /\ controllers => controllers'
    /\ newProblemsMessage # Undefined => newProblemsMessage' = newProblemsMessage
    /\ userEdits # Undefined => userEdits' = userEdits
    /\ streamedLines # <<>> => streamedLines' = streamedLines

\* C23: when a read, write or delete of a file fails during open, saveChanges
\* or revertChanges, the caller gets an error that carries the path of the
\* session's file and the underlying cause; the coordinator is editing
\* afterwards and none of its fields has been cleared; a failed delete in
\* revertChanges removes no directory and leaves the session as it was.
C23_FileFailureKeepsSession ==
    [][FileFailureStep =>
          /\ ret'.path = relPath'
          /\ ret'.path # Undefined
          /\ ret'.cause
          /\ isEditing'
          /\ NoFieldCleared
          /\ session'.ended = IF call'.op = "open" THEN "no" ELSE session.ended
          /\ call'.op # "open" => coordVars' = coordVars /\ streamedLines' = streamedLines
          /\ call'.op = "revertChanges" => ret'.error = "delete" /\ dirs' = dirs]_vars

\* A revert of a new file whose delete failed: the directories made for it
\* are still there and still recorded.
C23_Witness ==
    /\ call.op = "revertChanges"
    /\ ret.raised
    /\ ret.error = "delete"
    /\ ret.path = <<"d", "g">>
    /\ createdDirs # <<>>
    /\ SeqToSet(createdDirs) \subseteq dirs
    /\ isEditing


\* Whether relPath or a decoration controller is unset.
RequiredValuesUnset == relPath = Undefined \/ ~controllers

\* C24: an update called while relPath or a decoration controller is unset
\* raises "Required values not set" and does nothing else: no field of the
\* coordinator or of the content updater changes, and neither the document
\* nor the disk is touched.
C24_UpdateWithoutRequiredValues ==
    [][(RequiredValuesUnset /\ UpdateStep)
          => /\ ret'.raised
             /\ ret'.error = "Required values not set"
             /\ coordVars' = coordVars
             /\ streamedLines' = streamedLines
             /\ updaterControllers' = updaterControllers
             /\ hostVars' = hostVars]_vars

\* An update refused after an open that failed before the editor was shown:
\* the path is set, the controllers are not.
C24_Witness ==
    /\ call.op = "update"
    /\ ret.raised
    /\ ret.error = "Required values not set"
    /\ isEditing
    /\ relPath # Undefined
    /\ ~controllers
    /\ newContent = Undefined


C26_TrailingNewlineIffOriginal ==
    FinalUpdateCompleted => (EndsWithLF(docText) <=> EndsWithLF(session.original))


\* s without a U+FEFF at its start.
WithoutLeadingBOM(s) == IF s # <<>> /\ Head(s) = "FEFF" THEN Tail(s) ELSE s

\* C27, as stated: the text of the last replace of a final update is the
\* accumulated content, with one "\n" appended only when the original ends
\* with "\n" and the accumulated content does not.
C27_LastReplaceIsContentWithNewline ==
    FinalUpdateCompleted =>
        session.lastReplace = WithOriginalNewline(call.proposed, session.original)

\* C27: the text of the last replace of a final update is the accumulated
\* content without a U+FEFF at its start, with one "\n" appended only when
\* the original ends with "\n" and the accumulated content does not; a
\* newline that is there is never doubled, and none is added when the
\* original has none, also for an empty original or an empty content.
C27_LastReplaceIsStrippedContentWithNewline ==
    FinalUpdateCompleted =>
        /\ session.lastReplace =
              WithOriginalNewline(WithoutLeadingBOM(call.proposed), session.original)
        /\ ~EndsWithLF(session.original) =>
              session.lastReplace = WithoutLeadingBOM(call.proposed)
        /\ EndsWithLF(call.proposed) =>
              session.lastReplace = WithoutLeadingBOM(call.proposed)

\* A final update whose content lacks the newline the original ends with:
\* the last replace appends it.
C27_Witness ==
    /\ FinalUpdateCompleted
    /\ EndsWithLF(session.original)
    /\ call.proposed # Empty
    /\ ~EndsWithLF(call.proposed)
    /\ session.lastReplace = call.proposed \o LF


(***************************************************************************)
(* Properties of the text functions (SpecText)                             *)
(***************************************************************************)

\* Whether the last call made, and the one before it, are the call c.
LastCallIs(c) == textCalls # <<>> /\ textCalls[Len(textCalls)] = c

CallBeforeIs(c) == Len(textCalls) > 1 /\ textCalls[Len(textCalls) - 1] = c

\* C28: stripAllBOMs(s) is s with every U+FEFF and U+FFFE removed, wherever
\* they stand, and every other character kept in order; the result holds
\* neither code point, and stripping the result again gives the result.
C28_StripAllBOMsRemovesEveryBOM ==
    LastCallIs(StripCall) =>
        /\ textOut = WithoutBOMs(textBefore)
        /\ ~HasBOM(textOut)
        /\ CallBeforeIs(StripCall) => textOut = textBefore

\* A text with a mark after its first character, stripped twice.
C28_Witness ==
    /\ textCalls = <<StripCall, StripCall>>
    /\ \E i \in 2..Len(textIn) : textIn[i] \in {"FEFF", "FFFE"}
    /\ \E i \in 1..Len(textIn) : textIn[i] \notin {"FEFF", "FFFE"}
    /\ textOut # textIn
    /\ textOut = textBefore

\* C29: normalizeEOL rewrites every line break to the target, whatever the
\* text mixes of CRLF, LF and carriage returns: normalizeEOL(s, "\r\n") has
\* no LF without a CR before it, and normalizeEOL(normalizeEOL(s, "\r\n"),
\* "\n") has no CRLF.
C29_NormalizeEOLIsUniform ==
    /\ LastCallIs(NormalizeCall(CRLF)) /\ Len(textCalls) = 1 => ~HasBareLF(textOut)
    /\ textCalls = <<NormalizeCall(CRLF), NormalizeCall(LF)>> => ~HasCRLF(textOut)


(***************************************************************************)
(* Properties of the directory cleanup (Spec)                              *)
(***************************************************************************)

Reverse(seq) == [i \in 1..Len(seq) |-> seq[Len(seq) + 1 - i]]

\* The directories of the rmdir calls, in the order of the calls.
Attempted(rmdirs) == [i \in 1..Len(rmdirs) |-> rmdirs[i].directory]

\* The step is a revertChanges call that went past its first check.
RevertStep == nCalls' = nCalls + 1 /\ call'.op = "revertChanges" /\ ~call'.skipped

\* C30: removeDirectories never raises: in a revert of a new file that got
\* past the delete, rmdir is attempted on every created directory, once each
\* and from the last to the first, whichever of them fail; revertChanges then
\* returns and the coordinator is reset.  A revert that raises has attempted
\* no rmdir: the error is the failed delete.
C30_RemoveDirectoriesSwallowsFailures ==
    [][(RevertStep /\ editType = "create") =>
          /\ ret'.raised => ret'.error = "delete" /\ call'.rmdirs = <<>> /\ dirs' = dirs
          /\ ~ret'.raised =>
                /\ Attempted(call'.rmdirs) = Reverse(createdDirs)
                /\ dirs' = dirs \ {call'.rmdirs[i].directory :
                                     i \in {j \in 1..Len(call'.rmdirs) : call'.rmdirs[j].removed}}
                /\ ~isEditing'
                /\ relPath' = Undefined
                /\ editType' = "undefined"
                /\ createdDirs' = <<>>]_vars

\* A revert whose first rmdir was refused: the outer directory was attempted
\* all the same, the call returned and the coordinator is reset.
C30_Witness ==
    /\ call.op = "revertChanges"
    /\ ~ret.raised
    /\ call.rmdirs = <<Rmdir(<<"d", "e">>, FALSE), Rmdir(<<"d">>, FALSE)>>
    /\ {<<"d">>, <<"d", "e">>} \subseteq dirs
    /\ ~isEditing
    /\ relPath = Undefined


(***************************************************************************)
(* Properties of the write result (SpecResult)                             *)
(***************************************************************************)

\* pushToolWriteResult returned a payload: through the coordinator, after a
\* saveChanges that returned; or called on the handler alone.
ResultPushed == call.op = "pushToolWriteResult" /\ ~ret.raised

CoordinatorPushed == ResultPushed /\ call.steps = <<>>

HandlerPushed == ResultPushed /\ call.steps = <<"handler">>

\* The three signs of user edits in a write result.
HasUserEditsElement == ret.payload.user_edits # Undefined

HasGuidanceNote ==
    \E i \in 1..Len(ret.payload.notice) : ret.payload.notice[i] = NoteUserEdits

SentUserFeedbackDiff == ret.said.type = "user_feedback_diff"

\* C31: when the saveChanges before detected user edits (userEdits is
\* defined, be it the empty text of an emptied document), the payload of
\* pushToolWriteResult holds a user_edits element with them and the guidance
\* note, and a user_feedback_diff message is sent; without user edits none of
\* the three appears.
C31_UserEditsAreReported ==
    CoordinatorPushed =>
        IF userEdits # Undefined
        THEN /\ HasUserEditsElement
             /\ ret.payload.user_edits = userEdits
             /\ HasGuidanceNote
             /\ SentUserFeedbackDiff
             /\ ret.said.diff = userEdits
        ELSE ~HasUserEditsElement /\ ~HasGuidanceNote /\ ~SentUserFeedbackDiff

\* A code point as the payload must hold it.
EscapedChar(c) ==
    IF c = "&" THEN <<"&", "a", "m", "p", ";">>
    ELSE IF c = "<" THEN <<"&", "l", "t", ";">>
    ELSE IF c = ">" THEN <<"&", "g", "t", ";">>
    ELSE <<c>>

RECURSIVE Escaped(_)
Escaped(text) == IF text = <<>> THEN <<>> ELSE EscapedChar(Head(text)) \o Escaped(Tail(text))

\* C32: every text of the payload (path, user edits, problems, notes) is the
\* value it was built from with each & replaced by &amp;, each < by &lt; and
\* each > by &gt;, and nothing else altered: quotes and apostrophes stay.
C32_EscapesOnlyAmpLtGt ==
    HandlerPushed =>
        /\ ret.payload.path = Escaped(ret.path)
        /\ HasUserEditsElement => ret.payload.user_edits = Escaped(ret.userEdits)
        /\ ret.payload.problems # Undefined =>
              ret.payload.problems = Escaped(ret.newProblemsMessage)
        /\ Len(ret.payload.notice) >= 2
        /\ ret.payload.notice[1] = NoteNoReread
        /\ ret.payload.notice[2] = NoteBaseline
        /\ Len(ret.payload.notice) > 2 => ret.payload.notice[3] = NoteUserEdits

\* User edits that hold an ampersand before a bracket and a quote.
C32_Witness ==
    /\ HandlerPushed
    /\ ret.userEdits = <<"&", "<">>
    /\ ret.payload.user_edits = <<"&", "a", "m", "p", ";", "&", "l", "t", ";">>
    /\ ret.newProblemsMessage = <<"\"", ">">>
    /\ ret.payload.problems = <<"\"", "&", "g", "t", ";">>
    /\ Len(ret.payload.notice) = 3


(***************************************************************************)
(* Properties of the file saver (SpecSaver)                                *)
(***************************************************************************)

\* saveDirectly returned its result.
DirectlySaved == call.op = "saveDirectly" /\ ~ret.raised

\* The position of a step among the steps of the call, 0 when it was not
\* carried out.
StepAt(step) ==
    IF \E i \in 1..Len(call.steps) : call.steps[i] = step
    THEN CHOOSE i \in 1..Len(call.steps) : call.steps[i] = step
    ELSE 0

\* The text without its line breaks (CRLF and LF).
RECURSIVE WithoutLineBreaks(_)
WithoutLineBreaks(s) ==
    IF s = <<>> THEN <<>>
    ELSE IF Len(s) > 1 /\ s[1] = "CR" /\ s[2] = "LF" THEN WithoutLineBreaks(Tail(Tail(s)))
    ELSE IF s[1] = "LF" THEN WithoutLineBreaks(Tail(s))
    ELSE <<s[1]>> \o WithoutLineBreaks(Tail(s))

\* Every line break of s is the one of the style.
InStyle(s, style) == IF style = CRLF THEN ~HasBareLF(s) ELSE ~HasCRLF(s)

\* C33: saveDirectly with the default options creates the missing parent
\* directories, then writes to the path the given content with every BOM
\* stripped and every line break in the style detected in the given content;
\* apart from the line breaks the written text is the given one without its
\* BOMs; it returns no userEdits and the written content as finalContent, and
\* no comparison view is opened.
C33_SaveDirectlyWritesProcessedContent ==
    DirectlySaved =>
        /\ SeqToSet(Ancestors(relPath)) \subseteq dirs
        /\ 0 < StepAt("createDirectories")
        /\ StepAt("createDirectories") < StepAt("writeFile")
        /\ writeLog = <<[path |-> relPath, content |-> files[relPath]]>>
        /\ ~HasBOM(files[relPath])
        /\ InStyle(files[relPath], DetectLineEnding(call.proposed))
        /\ WithoutLineBreaks(files[relPath]) = WithoutLineBreaks(WithoutBOMs(call.proposed))
        /\ ret.userEdits = Undefined
        /\ ret.finalContent = files[relPath]
        /\ ~diffTabOpen /\ ~activeDiffEditor
        /\ StepAt("openDiffEditor") = 0

\* saveWithBackup returned its result, a backup taken or not.
BackupSaved == call.op = "saveWithBackup" /\ ~ret.raised

\* C34: saveWithBackup of an existing target first writes the backup file
\* <path>.backup.<timestamp> with the target's content as it was, and only
\* then saves the new content; of a target that is not there it writes no
\* backup and returns no backupPath; when the read or the write of the backup
\* fails it saves all the same and returns no backupPath.
C34_SaveWithBackup ==
    [][(call'.op = "saveWithBackup" /\ nCalls' = nCalls + 1) =>
        LET target == IF Len(writeLog') > 0 THEN writeLog'[Len(writeLog')].path ELSE Undefined
        IN  /\ ~ret'.raised =>
                /\ Len(writeLog') \in {1, 2}
                /\ files'[target] = ProcessedContent(call'.proposed)
                /\ Len(writeLog') = 2 =>
                      /\ files[target] # Undefined
                      /\ \E now \in Timestamps :
                            /\ writeLog'[1].path = BackupPath(target, now)
                            /\ ret'.backupPath = BackupPath(target, now)
                      /\ writeLog'[1].content = files[target]
                      /\ files'[writeLog'[1].path] = files[target]
                /\ Len(writeLog') = 1 =>
                      /\ ret'.backupPath = Undefined
                      /\ \A b \in BackupPaths : files'[b] = files[b]
                /\ files[target] = Undefined => Len(writeLog') = 1
                /\ StepAt("warn")' > 0 => Len(writeLog') = 1
                /\ (files[target] # Undefined /\ StepAt("warn")' = 0) => Len(writeLog') = 2
            /\ \A q \in Paths : files[q] = Undefined /\ files'[q] # Undefined =>
                  \A now \in Timestamps : files'[BackupPath(q, now)] = files[BackupPath(q, now)]
    ]_vars

\* A second save with a backup of the same file: the backup holds what the
\* first save wrote.
C34_Witness ==
    /\ BackupSaved
    /\ nDirect = 2
    /\ Len(writeLog) = 2
    /\ writeLog[1].content # Empty
    /\ ret.backupPath = writeLog[1].path
    /\ files[writeLog[1].path] = writeLog[1].content
    /\ files[writeLog[2].path] # writeLog[1].content


(***************************************************************************)
(* Properties of the scrolling (SpecScroll)                                *)
(***************************************************************************)

\* An update went through while the editor showed a range of lines.
UpdatedInSight == call.op = "update" /\ ~ret.raised /\ call.visible # <<>>

\* The new end-of-content line of the update.
EndOfContentLine == SplitLength(call.proposed)

InSight(line) == call.visible[1].start <= line /\ line <= call.visible[1].end

\* C35: after an update the editor is scrolled to the new end-of-content
\* line only when that line is outside the visible range; when the line is
\* inside the visible range there is no scroll.
C35_ScrollsOnlyWhenOffScreen ==
    UpdatedInSight =>
        /\ call.scrolledTo # <<>> => call.scrolledTo = <<EndOfContentLine>>
        /\ call.scrolledTo # <<>> => ~InSight(EndOfContentLine)
        /\ InSight(EndOfContentLine) => call.scrolledTo = <<>>

\* An update went through, whatever the editor showed.
UpdateReturned == call.op = "update" /\ ~ret.raised

StrictlyInSight(line) ==
    call.visible # <<>> /\ call.visible[1].start < line /\ line < call.visible[1].end

\* C35 (amended): after an update the editor is scrolled to the new
\* end-of-content line exactly when that line lies strictly inside the first
\* visible range; a line off the screen, on the first or the last visible
\* line, or an editor without a visible range, gives no scroll.
C35_ScrollsOnlyWhenInSight ==
    UpdateReturned =>
        call.scrolledTo = IF StrictlyInSight(EndOfContentLine) THEN <<EndOfContentLine>>
                          ELSE <<>>

\* An update whose end-of-content line is in the middle of the screen.
C35_Witness ==
    /\ UpdatedInSight
    /\ call.visible = <<LineRange(0, 3)>>
    /\ EndOfContentLine = 2
    /\ call.scrolledTo = <<2>>


(***************************************************************************)
(* Properties of the cleanup after a failed open (SpecCleanup)             *)
(***************************************************************************)

\* open of a new file failed after it had created directories or the empty
\* file.
OpenFailedAfterCreating ==
    /\ call.op = "open"
    /\ ret.raised
    /\ session.kind = "create"
    /\ (session.created # <<>> \/ files[session.path] # Undefined)

\* C36: when open of a new file fails after it created directories or the
\* empty file, the revertChanges that follows deletes that file and removes
\* the created directories: the file system is as it was before open.
C36_RevertAfterFailedOpenCleansUp ==
    [][(OpenFailedAfterCreating /\ call'.op = "revertChanges" /\ nCalls' = nCalls + 1) =>
        /\ files'[session.path] = Undefined
        /\ SeqToSet(session.created) \cap dirs' = {}
    ]_vars


(***************************************************************************)
(* Properties of the save after the final update (SpecStream)              *)
(***************************************************************************)

\* saveChanges returned after an open and a final update that went through.
SavedAfterFinalUpdate ==
    /\ call.op = "saveChanges"
    /\ ~ret.raised
    /\ session.finalized

\* C37: after a successful open and a final update, saveChanges performs the
\* save whatever the final content, the empty one too: the file is written
\* and the result's finalContent is defined.
C37_SaveAfterFinalUpdateSaves ==
    SavedAfterFinalUpdate =>
        /\ ~call.skipped
        /\ writeLog # <<>>
        /\ ret.finalContent # Undefined


(***************************************************************************)
(* Properties of the text written while streaming (SpecStream)             *)
(***************************************************************************)

\* C38: the text an update writes into the editor, final or not, is the
\* content with its BOMs stripped as FileContentManager.stripAllBOMs strips
\* them: it holds no U+FEFF and no U+FFFE.
C38_StreamedTextHasNoBOM ==
    UpdateReturned =>
        /\ ~HasBOM(session.firstReplace)
        /\ session.firstReplace = StripAllBOMs(ContentToReplace(call.proposed, call.isFinal))
        /\ call.isFinal => ~HasBOM(session.lastReplace)


(***************************************************************************)
(* Properties of the decorations (SpecStream)                              *)
(***************************************************************************)

\* A non-final update went through.
NonFinalUpdateCompleted == call.op = "update" /\ ~call.isFinal /\ ~ret.raised

\* The line that follows the last complete streamed line.
LineAfterStreamed == Len(streamedLines)

\* C39: after every non-final update, whether the document grew or shrank,
\* the active-line decoration is exactly the line after the last complete
\* streamed line, and every range of the faded overlay lies after that line.
C39_OverlayFollowsActiveLine ==
    NonFinalUpdateCompleted =>
        /\ session.active = <<LineRange(LineAfterStreamed, LineAfterStreamed)>>
        /\ \A i \in 1..Len(session.faded) : session.faded[i].start > LineAfterStreamed

\* C40: when a final update completes without error, the faded overlay and
\* the active line hold no ranges, whatever the updates before it had set.
C40_FinalUpdateClearsDecorations ==
    FinalUpdateCompleted => session.faded = <<>> /\ session.active = <<>>

\* A final update that follows a non-final one, which had set an active line.
C40_Witness ==
    /\ FinalUpdateCompleted
    /\ nUpdates = 2
    /\ session.faded = <<>>
    /\ session.active = <<>>

====
